---- MODULE Spec2Model ----
(***************************************************************************)
(* Ordered resource deletion of pkg/operator/client: decoding a batch of   *)
(* manifests, indexing its CustomResourceDefinitions, bucketing the        *)
(* resources by kind, ordering the kinds and removing the resources, and   *)
(* the clearing of namespaces by repeated list/delete passes.              *)
(***************************************************************************)
EXTENDS Integers, Sequences, FiniteSets, TLC

\* ---------------------------------------------------------------- bounds
\* longest batch of manifests given to deleteManifestResources
MaxBatch == 3

\* ------------------------------------------------------- basic helpers
\* a Go pointer: Nil, or Some(x) holding the value pointed to
Nil == <<>>
Some(x) == <<x>>
Deref(p) == p[1]

Range(s) == {s[i] : i \in 1..Len(s)}

\* a Go map read: the zero value (a nil slice) for a missing key
MapGet(m, k) == IF k \in DOMAIN m THEN m[k] ELSE <<>>
\* a Go map write: the key is created when missing
MapPut(m, k, v) == [x \in (DOMAIN m) \cup {k} |-> IF x = k THEN v ELSE m[x]]

\* Byte-wise order of the strings that occur as kind names, as Go's < on
\* strings orders them (sort.Strings): a proper prefix sorts first.
KindNames ==
  << "", "APIService", "Bar", "ClusterRole", "ClusterRoleBinding",
     "ClusterRoleBindingList", "ClusterRoleList", "ConfigMap", "CronJob",
     "CustomResource", "CustomResourceDefinition", "DaemonSet", "Deployment",
     "Foo", "HorizontalPodAutoscaler", "Ingress", "Job", "LimitRange",
     "PersistentVolume", "PersistentVolumeClaim", "Pod", "PodDisruptionBudget",
     "PodSecurityPolicy", "ReplicaSet", "ReplicationController",
     "ResourceQuota", "Role", "RoleBinding", "RoleBindingList", "RoleList",
     "Secret", "SecretList", "Service", "ServiceAccount", "StatefulSet",
     "StorageClass", "UnknownKind" >>
Rank(s) == CHOOSE i \in 1..Len(KindNames) : KindNames[i] = s
StringLess(a, b) == Rank(a) < Rank(b)

\* sort.Strings: ascending byte-wise order (insertion of each element in turn)
RECURSIVE InsertSorted(_, _)
InsertSorted(s, x) ==
  IF s = <<>> THEN <<x>>
  ELSE IF StringLess(x, Head(s)) THEN <<x>> \o s
  ELSE <<Head(s)>> \o InsertSorted(Tail(s), x)
RECURSIVE SortStringsFrom(_, _)
SortStringsFrom(s, acc) ==
  IF s = <<>> THEN acc ELSE SortStringsFrom(Tail(s), InsertSorted(acc, Head(s)))
SortStrings(s) == SortStringsFrom(s, <<>>)

\* ------------------------------------------------------ kind order tables
defaultKindDeleteOrder ==
  [ PreOrder |->
      << "CustomResource", "APIService", "Ingress", "Service", "CronJob", "Job",
         "StatefulSet", "HorizontalPodAutoscaler", "Deployment", "ReplicaSet",
         "ReplicationController", "Pod", "DaemonSet", "RoleBindingList",
         "RoleBinding", "RoleList", "Role", "ClusterRoleBindingList",
         "ClusterRoleBinding", "ClusterRoleList", "ClusterRole" >>,
    PostOrder |->
      << "CustomResourceDefinition", "PersistentVolumeClaim", "PersistentVolume",
         "StorageClass", "ConfigMap", "SecretList", "Secret", "ServiceAccount",
         "PodDisruptionBudget", "PodSecurityPolicy", "LimitRange",
         "ResourceQuota" >> ]

\* a caller-supplied KindOrder that does not list "CustomResource"
\* (kindDeleteOrder is a parameter of deleteManifestResources)
shortKindDeleteOrder ==
  [ PreOrder |-> << "Service" >>, PostOrder |-> << "Pod" >> ]

KindOrders == {defaultKindDeleteOrder, shortKindDeleteOrder}

\* a caller-supplied KindOrder with "CustomResource" first
customFirstKindOrder ==
  [ PreOrder |-> << "CustomResource", "Service" >>, PostOrder |-> << "Pod" >> ]

TableKinds(kindOrder) == Range(kindOrder.PreOrder) \cup Range(kindOrder.PostOrder)

\* initResourceKindOrderMap: one empty bucket per kind of the table
initResourceKindOrderMap(kindOrder) == [k \in TableKinds(kindOrder) |-> <<>>]

\* getOrderedKinds: PreOrder, the sorted default kinds, PostOrder
\* variant: the unlisted kinds are left in the order they were first seen
getOrderedKinds_Unsorted(kindOrder, defaultKinds) ==
  kindOrder.PreOrder \o defaultKinds \o kindOrder.PostOrder

\* variant: the unlisted kinds are put after PostOrder
getOrderedKinds_PostFirst(kindOrder, defaultKinds) ==
  kindOrder.PreOrder \o kindOrder.PostOrder \o SortStrings(defaultKinds)

\* variant: the unlisted kinds are put before PreOrder
getOrderedKinds_DefaultFirst(kindOrder, defaultKinds) ==
  SortStrings(defaultKinds) \o kindOrder.PreOrder \o kindOrder.PostOrder

getOrderedKinds(kindOrder, defaultKinds) ==
  kindOrder.PreOrder \o SortStrings(defaultKinds) \o kindOrder.PostOrder

\* The KindOrder argument once getOrderedKinds has returned.  Its slices
\* share their arrays with the caller's table; getOrderedKinds sorts only
\* defaultKinds in place and copies PreOrder and PostOrder into a fresh
\* slice (orderedKinds := KindSortOrder{}), so the argument is as before.
\* variant: the lists of the table are sorted in place as well
KindOrderAfterGetOrderedKinds_SortedInPlace(kindOrder) ==
  [ PreOrder |-> SortStrings(kindOrder.PreOrder),
    PostOrder |-> SortStrings(kindOrder.PostOrder) ]

KindOrderAfterGetOrderedKinds(kindOrder) == kindOrder

\* variant: the kind comes before the group
buildGVKKey_KindFirst(group, kind, version) == kind \o "/" \o group \o "/" \o version

\* buildGVKKey: fmt.Sprintf("%s/%s/%s", group, kind, version)
buildGVKKey(group, kind, version) == group \o "/" \o kind \o "/" \o version

\* ---------------------------------------------------------------- inputs
\* A manifest document.  text stands for the raw document; dec tells how the
\* decoding of the text ends: "yamlErr" (the YAML/JSON decoder rejects it),
\* "convErr" (the conversion to unstructured content fails) or "ok".  The
\* other fields are what an "ok" document declares; crd* is the spec of a
\* CustomResourceDefinition document (crdOK: it converts to the typed form).
Manifest(text, dec, group, version, kind, namespace, crdOK, crdGroup, crdKind, crdVersions) ==
  [ text |-> text, dec |-> dec, group |-> group, version |-> version,
    kind |-> kind, name |-> text, namespace |-> namespace, crdOK |-> crdOK,
    crdGroup |-> crdGroup, crdKind |-> crdKind, crdVersions |-> crdVersions ]

Plain(text, group, version, kind, namespace) ==
  Manifest(text, "ok", group, version, kind, namespace, FALSE, "", "", <<>>)

mPVC == Plain("pvc", "", "v1", "PersistentVolumeClaim", "other")
mFooG == Plain("foo-g", "g", "v1", "Foo", "")
mFooH == Plain("foo-h", "h", "v1", "Foo", "other")
mCustomResource == Plain("cr-literal", "x", "v1", "CustomResource", "")
mCrdFoo ==
  Manifest("crd-foo", "ok", "apiextensions.k8s.io", "v1", "CustomResourceDefinition",
           "", TRUE, "g", "Foo", << "v1", "v2" >>)
mCrdBroken ==
  Manifest("crd-broken", "ok", "apiextensions.k8s.io", "v1", "CustomResourceDefinition",
           "", FALSE, "h", "Foo", << "v1" >>)
mNotYaml == Manifest("not-yaml", "yamlErr", "", "", "", "", FALSE, "", "", <<>>)
mNotObject == Manifest("not-object", "convErr", "", "", "", "", FALSE, "", "", <<>>)

Manifests ==
  { mPVC, mFooG, mFooH, mCustomResource, mCrdFoo, mCrdBroken,
    mNotYaml, mNotObject }

RECURSIVE SeqsUpTo(_, _)
SeqsUpTo(S, n) ==
  IF n = 0 THEN {<<>>}
  ELSE LET shorter == SeqsUpTo(S, n - 1)
       IN shorter \cup {Append(s, x) : s \in {t \in shorter : Len(t) = n - 1}, x \in S}

Batches == SeqsUpTo(Manifests, MaxBatch)

\* a batch of four kinds: a Service, a Pod, an instance of the custom kind
\* g/Foo/v1 and a resource of a kind no table lists, in any order
mService == Plain("svc", "", "v1", "Service", "")
mPod == Plain("pod", "", "v1", "Pod", "other")
mUnknownKind == Plain("unknown", "u", "v1", "UnknownKind", "")
FourKinds == {mService, mPod, mFooG, mUnknownKind}
FourKindBatches ==
  {b \in [1..4 -> FourKinds] : \A x, y \in 1..4 : b[x] = b[y] => x = y}

\* the target namespace of a deployment
TargetNS == "default"

\* ------------------------------------------------------------- variables
VARIABLES
  pc,                     \* position in the running call
  manifests,              \* deleteManifestResources: the raw documents
  kindDeleteOrder,        \* deleteManifestResources: the KindOrder argument
  waitFlag,               \* deleteManifestResources: the caller's wait flag
  resources,              \* result of decodeManifests
  crdGVKMap,              \* result of buildCrdGVKMap (the set of its keys)
  deleteOrderResourceMap, \* kind -> list of resources
  deleteOrderedKinds,     \* the ordered kind sequence
  kindIdx,                \* deleteManifestResources: index of the current kind
  resIdx,                 \* deleteManifestResources: index in the current bucket
  removeLog,              \* the calls of kubernetesApplier.Remove, in order
  namespacesToClear,      \* clearNamespaces: the namespaces argument
  isRestore,              \* clearNamespaces: the isRestore argument
  restoreLabelSelector,   \* clearNamespaces: the label selector argument
  loopVarPerIteration,    \* the build gives each loop iteration its own variable
  deletionGVRs,           \* clearNamespaces: the resource types to list
  nsIdx,                  \* clearNamespaces: index of the current namespace
  retry,                  \* clearNamespaces: the loop counter i
  objects,                \* the cluster: the state of every object
  resourcesToDelete,      \* clearNamespaces: kind -> resources of this pass
  deleteCalls,            \* the Delete calls of the current pass, in order, each
                          \* with the object found (found), the name passed
                          \* (name) and the state of that object (was)
  lastFound,              \* per namespace, what its last list pass found
  listLog,                \* the List calls of the last list pass and its error
  listPasses,             \* the number of list passes of the namespace last listed
  retrySleeps,            \* the number of 2 s sleeps of that namespace
  graceSleeps,            \* the number of 20 s sleeps so far
  result                  \* what clearNamespaces returned

deleteVars ==
  << manifests, waitFlag, resources, crdGVKMap, deleteOrderResourceMap, removeLog >>

clearVars ==
  << namespacesToClear, isRestore, restoreLabelSelector, loopVarPerIteration,
     deletionGVRs, nsIdx, retry, objects, resourcesToDelete, deleteCalls,
     lastFound, listLog, listPasses, retrySleeps, graceSleeps, result >>

\* the state of deletePVCs
VARIABLES
  callerSelector,         \* the caller's label selector object (Nil: none)
  selectorAtCall,         \* that object as it was when deletePVCs was called
  appLabelSelector,       \* deletePVCs: the selector it lists the pods with
  podsList,               \* the pods the List call returns: their volumes
  claims,                 \* the PersistentVolumeClaims present in the namespace
  pvcs,                   \* deletePVCs: the claim names collected
  pvcIdx,                 \* deletePVCs: index in pvcs
  pvcDeletes,             \* the Delete calls of deletePVCs with their outcome
  pvcResult               \* what deletePVCs returned

pvcVars ==
  << callerSelector, selectorAtCall, appLabelSelector, podsList, claims, pvcs,
     pvcIdx, pvcDeletes, pvcResult >>

\* the state of deleteUnusedImages and of its task monitors
VARIABLES
  procs,                  \* the invocations of deleteUnusedImages under way
  hostname,               \* registry.Hostname
  usedImages,             \* the usedImages argument
  taskStatus,             \* the delete-images task status kept by the store
  timestampUpdates,       \* the calls of UpdateTaskStatusTimestamp so far
  registryDigests,        \* the digests the registry holds
  ipc,                    \* per invocation: its position
  currentStatus,          \* per invocation: the status GetTaskStatus returned
  digestsInRegistry,      \* per invocation: the digests of its map
  resolvedDigests,        \* per invocation: the digests resolved for usedImages
  deletedDigests,         \* per invocation: the digests it deleted
  finalError,             \* per invocation: the named result finalError
  monitor,                \* per invocation: the state of its monitor goroutine
  monitorError            \* per invocation: the error its monitor received

imageVars ==
  << procs, hostname, usedImages, taskStatus, timestampUpdates, registryDigests,
     ipc, currentStatus, digestsInRegistry, resolvedDigests, deletedDigests,
     finalError, monitor, monitorError >>

\* the state of DeleteUnusedImages
VARIABLES
  imageDeletionEnabled,   \* installParams.EnableImageDeletion
  registryReadOnly,       \* registrySettings.IsReadOnly
  kurl,                   \* what kotsadm.IsKurl returns
  failingLookup,          \* the lookup before the loop that fails, or "none"
  ignoreRollback,         \* the ignoreRollback argument
  registryApps,           \* the applications of the registry, in the order of
                          \* GetAppIDsFromRegistry, with what the store answers
  appIdx,                 \* index of the application being checked
  duiResult               \* what DeleteUnusedImages returned or went on to

duiVars ==
  << imageDeletionEnabled, registryReadOnly, kurl, failingLookup, ignoreRollback,
     registryApps, appIdx, duiResult >>

\* the state of pushImage
VARIABLES
  logForUI,               \* opts.LogForUI
  copyCalls,              \* the outcomes of the CopyImage calls so far
  copyError,              \* the variable copyError
  reportWriter,           \* the records written to opts.ReportWriter
  pushResult              \* what pushImage returned

pushVars == << logForUI, copyCalls, copyError, reportWriter, pushResult >>

\* the state of a call of GroupByDeletionWeight and GroupByCreationWeight
VARIABLES
  groupInput,             \* the receiver r
  byDeletionWeight,       \* the result of GroupByDeletionWeight
  byCreationWeight        \* the result of GroupByCreationWeight

groupVars == << groupInput, byDeletionWeight, byCreationWeight >>

\* the state of the functions other than deleteManifestResources and
\* clearNamespaces
otherVars == << pvcVars, imageVars, duiVars, pushVars, groupVars >>

\* the state of deleteManifestResources and clearNamespaces
orderVars ==
  << kindDeleteOrder, deleteOrderedKinds, kindIdx, resIdx, deleteVars, clearVars >>

vars == << pc, orderVars, otherVars >>

\* no call of deletePVCs is under way
PvcIdle ==
  /\ callerSelector = Nil
  /\ selectorAtCall = Nil
  /\ appLabelSelector = Nil
  /\ podsList = <<>>
  /\ claims = {}
  /\ pvcs = <<>>
  /\ pvcIdx = 1
  /\ pvcDeletes = <<>>
  /\ pvcResult = "none"

\* no call of deleteUnusedImages is under way
ImagesIdle ==
  /\ procs = {}
  /\ hostname = ""
  /\ usedImages = <<>>
  /\ taskStatus = [status |-> "", message |-> ""]
  /\ timestampUpdates = 0
  /\ registryDigests = {}
  /\ ipc = <<>>
  /\ currentStatus = <<>>
  /\ digestsInRegistry = <<>>
  /\ resolvedDigests = <<>>
  /\ deletedDigests = <<>>
  /\ finalError = <<>>
  /\ monitor = <<>>
  /\ monitorError = <<>>

\* no call of DeleteUnusedImages is under way
DuiIdle ==
  /\ imageDeletionEnabled = FALSE
  /\ registryReadOnly = FALSE
  /\ kurl = "false"
  /\ failingLookup = "none"
  /\ ignoreRollback = FALSE
  /\ registryApps = <<>>
  /\ appIdx = 1
  /\ duiResult = "none"

\* no call of pushImage is under way
PushIdle ==
  /\ logForUI = FALSE
  /\ copyCalls = <<>>
  /\ copyError = "nil"
  /\ reportWriter = <<>>
  /\ pushResult = "none"

\* no grouping is under way
GroupIdle ==
  /\ groupInput = <<>>
  /\ byDeletionWeight = <<>>
  /\ byCreationWeight = <<>>

OtherIdle == PvcIdle /\ ImagesIdle /\ DuiIdle /\ PushIdle /\ GroupIdle

\* ------------------------------------------------------------- decoding
\* decodeToUnstructured: (obj, gvk, err); obj and gvk are nil on either error
decodeToUnstructured(manifest) ==
  IF manifest.dec = "yamlErr" THEN [obj |-> Nil, gvk |-> Nil, err |-> TRUE]
  ELSE IF manifest.dec = "convErr" THEN [obj |-> Nil, gvk |-> Nil, err |-> TRUE]
  ELSE [ obj |-> Some([ kind |-> manifest.kind, name |-> manifest.name,
                        namespace |-> manifest.namespace,
                        crdOK |-> manifest.crdOK, crdGroup |-> manifest.crdGroup,
                        crdKind |-> manifest.crdKind,
                        crdVersions |-> manifest.crdVersions ]),
         gvk |-> Some([ Group |-> manifest.group, Version |-> manifest.version,
                        Kind |-> manifest.kind ]),
         err |-> FALSE ]

\* the resource appended for the manifest at position i (Index records that
\* position; it identifies the resource in the properties below)
DecodedResource(manifest, i) ==
  LET d == decodeToUnstructured(manifest)
  IN [ Wait |-> FALSE, Manifest |-> manifest.text, GVK |-> d.gvk,
       Unstructured |-> d.obj, Index |-> i ]

\* decodeManifests: one resource per manifest, the error only logged
\* variant: a manifest that cannot be decoded is dropped
decodeManifests_DropFailed(ms) ==
  SelectSeq([i \in 1..Len(ms) |-> DecodedResource(ms[i], i)], LAMBDA r : r.GVK # Nil)

decodeManifests(ms) == [i \in 1..Len(ms) |-> DecodedResource(ms[i], i)]

\* --------------------------------------------------------------- CRD index
\* the keys one resource adds to the index: a convertible
\* CustomResourceDefinition adds one key per declared version
\* variant: only the first declared version is indexed
CrdKeys_FirstVersion(r) ==
  LET u == Deref(r.Unstructured)
  IN IF Deref(r.GVK).Kind = "CustomResourceDefinition" /\ u.crdOK
        /\ u.crdVersions # <<>>
     THEN {buildGVKKey(u.crdGroup, u.crdKind, u.crdVersions[1])}
     ELSE {}

CrdKeys(r) ==
  LET u == Deref(r.Unstructured)
  IN IF Deref(r.GVK).Kind = "CustomResourceDefinition" /\ u.crdOK
     THEN {buildGVKKey(u.crdGroup, u.crdKind, u.crdVersions[j]) :
             j \in 1..Len(u.crdVersions)}
     ELSE {}

\* buildCrdGVKMap: r.GVK.Kind is read for every resource, so a resource whose
\* GVK is nil ends the call by a nil-pointer panic
\* variant: the loop ends at a CustomResourceDefinition that does not convert
RECURSIVE buildCrdGVKMapFrom_StopAtUnconvertible(_, _, _)
buildCrdGVKMapFrom_StopAtUnconvertible(rs, i, keys) ==
  IF i > Len(rs) THEN [panicked |-> FALSE, keys |-> keys]
  ELSE IF rs[i].GVK = Nil THEN [panicked |-> TRUE, keys |-> keys]
  ELSE IF Deref(rs[i].GVK).Kind = "CustomResourceDefinition"
          /\ ~Deref(rs[i].Unstructured).crdOK
       THEN [panicked |-> FALSE, keys |-> keys]
  ELSE buildCrdGVKMapFrom_StopAtUnconvertible(rs, i + 1, keys \cup CrdKeys(rs[i]))

RECURSIVE buildCrdGVKMapFrom(_, _, _)
buildCrdGVKMapFrom(rs, i, keys) ==
  IF i > Len(rs) THEN [panicked |-> FALSE, keys |-> keys]
  ELSE IF rs[i].GVK = Nil THEN [panicked |-> TRUE, keys |-> keys]
  ELSE buildCrdGVKMapFrom(rs, i + 1, keys \cup CrdKeys(rs[i]))
buildCrdGVKMap(rs) == buildCrdGVKMapFrom(rs, 1, {})

\* ------------------------------------------------------------- bucketing
\* shouldResourceWaitForDeletion (resource is a non-nil *Unstructured)
\* variant: no exception for PersistentVolumeClaims
shouldResourceWaitForDeletion_Always(resource, flag) == flag

shouldResourceWaitForDeletion(resource, flag) ==
  IF Deref(resource).kind = "PersistentVolumeClaim" THEN FALSE ELSE flag

\* the body of the loop of buildDeleteKindOrderedResources for resource r0;
\* acc holds deleteOrderResourceMap (m), defaultOrder (order) and whether the
\* call has panicked (GetKind and GetNamespace dereference r.Unstructured)
BucketResource(acc, r0, defaultNS, crdKeys, flag) ==
  IF acc.panicked \/ r0.Unstructured = Nil THEN [acc EXCEPT !.panicked = TRUE]
  ELSE
    LET u == Deref(r0.Unstructured)
        r == [r0 EXCEPT
                !.Wait = shouldResourceWaitForDeletion(r0.Unstructured, flag),
                !.Unstructured =
                   Some(IF u.namespace = "" THEN [u EXCEPT !.namespace = defaultNS]
                        ELSE u)]
    IN IF r.GVK = Nil
       THEN LET fresh == "" \notin DOMAIN acc.m
                m1 == IF fresh THEN MapPut(acc.m, "", <<>>) ELSE acc.m
            IN [acc EXCEPT
                  !.order = IF fresh THEN Append(acc.order, "") ELSE acc.order,
                  !.m = MapPut(m1, "", Append(m1[""], r))]
       ELSE
         LET gvk == Deref(r.GVK)
             crdGVK == buildGVKKey(gvk.Group, gvk.Kind, gvk.Version)
         IN IF crdGVK \in crdKeys
            THEN IF gvk.Kind \in DOMAIN acc.m
                 THEN [acc EXCEPT
                         !.m = MapPut(acc.m, gvk.Kind, Append(acc.m[gvk.Kind], r))]
                 ELSE [acc EXCEPT
                         !.m = MapPut(acc.m, "CustomResource",
                                      Append(MapGet(acc.m, "CustomResource"), r))]
            ELSE LET fresh == gvk.Kind \notin DOMAIN acc.m
                     m1 == IF fresh THEN MapPut(acc.m, gvk.Kind, <<>>) ELSE acc.m
                 IN [acc EXCEPT
                       !.order = IF fresh THEN Append(acc.order, gvk.Kind)
                                 ELSE acc.order,
                       !.m = MapPut(m1, gvk.Kind, Append(m1[gvk.Kind], r))]

RECURSIVE BucketAll(_, _, _, _, _, _)
BucketAll(acc, rs, i, defaultNS, crdKeys, flag) ==
  IF i > Len(rs) THEN acc
  ELSE BucketAll(BucketResource(acc, rs[i], defaultNS, crdKeys, flag),
                 rs, i + 1, defaultNS, crdKeys, flag)

\* buildDeleteKindOrderedResources: the bucket map and the ordered kinds
buildDeleteKindOrderedResources(deleteKindOrder, rs, defaultNS, crdKeys, flag) ==
  LET acc == BucketAll([ m |-> initResourceKindOrderMap(deleteKindOrder),
                         order |-> <<>>, panicked |-> FALSE ],
                       rs, 1, defaultNS, crdKeys, flag)
  IN [ panicked |-> acc.panicked, m |-> acc.m,
       kinds |-> getOrderedKinds(deleteKindOrder, acc.order) ]

\* --------------------------------------------------------------- removal
\* deleteManifestResource: the arguments of the kubernetesApplier.Remove call
\* variant: Remove is always called with the target namespace
deleteManifestResource_TargetNS(resource, targetNS) ==
  [ Index |-> resource.Index, manifest |-> resource.Manifest,
    namespace |-> targetNS, wait |-> resource.Wait ]

deleteManifestResource(resource, targetNS) ==
  [ Index |-> resource.Index,
    manifest |-> resource.Manifest,
    namespace |-> IF resource.GVK # Nil
                  THEN Deref(resource.Unstructured).namespace ELSE targetNS,
    wait |-> resource.Wait ]

\* the loops of deleteManifestResources: the first position at or after
\* (k, j) that holds a resource; k = Len(kinds) + 1 when there is none
\* variant: only the first resource of each kind is visited
RECURSIVE NextPosition_OnePerKind(_, _, _, _)
NextPosition_OnePerKind(m, kinds, k, j) ==
  IF k > Len(kinds) THEN [k |-> k, j |-> 1]
  ELSE IF j = 1 /\ Len(MapGet(m, kinds[k])) >= 1 THEN [k |-> k, j |-> 1]
  ELSE NextPosition_OnePerKind(m, kinds, k + 1, 1)

RECURSIVE NextPosition(_, _, _, _)
NextPosition(m, kinds, k, j) ==
  IF k > Len(kinds) THEN [k |-> k, j |-> 1]
  ELSE IF j <= Len(MapGet(m, kinds[k])) THEN [k |-> k, j |-> j]
  ELSE NextPosition(m, kinds, k + 1, 1)

\* ------------------------------------------------- deleteManifestResources
Init ==
  /\ pc = "decodeManifests"
  /\ OtherIdle
  /\ manifests \in Batches
  /\ kindDeleteOrder \in KindOrders
  /\ waitFlag \in BOOLEAN
  /\ resources = <<>>
  /\ crdGVKMap = {}
  /\ deleteOrderResourceMap = <<>>
  /\ deleteOrderedKinds = <<>>
  /\ kindIdx = 1
  /\ resIdx = 1
  /\ removeLog = <<>>
  /\ namespacesToClear = <<>>
  /\ isRestore = FALSE
  /\ restoreLabelSelector = "nil"
  /\ loopVarPerIteration = FALSE
  /\ deletionGVRs = {}
  /\ nsIdx = 1
  /\ retry = 0
  /\ objects = <<>>
  /\ resourcesToDelete = <<>>
  /\ deleteCalls = <<>>
  /\ lastFound = <<>>
  /\ listLog = [listed |-> {}, failed |-> {}, err |-> FALSE]
  /\ listPasses = 0
  /\ retrySleeps = 0
  /\ graceSleeps = 0
  /\ result = "none"

\* resources := decodeManifests(manifests)
DecodeManifests ==
  /\ pc = "decodeManifests"
  /\ UNCHANGED otherVars
  /\ resources' = decodeManifests(manifests)
  /\ pc' = "buildCrdGVKMap"
  /\ UNCHANGED clearVars
  /\ UNCHANGED << manifests, kindDeleteOrder, waitFlag, crdGVKMap,
                  deleteOrderResourceMap, deleteOrderedKinds, kindIdx, resIdx,
                  removeLog >>

\* crdGVKMap := buildCrdGVKMap(resources)
BuildCrdGVKMap ==
  /\ pc = "buildCrdGVKMap"
  /\ UNCHANGED otherVars
  /\ LET res == buildCrdGVKMap(resources)
     IN /\ crdGVKMap' = IF res.panicked THEN crdGVKMap ELSE res.keys
        /\ pc' = IF res.panicked THEN "panic" ELSE "buildDeleteKindOrderedResources"
  /\ UNCHANGED clearVars
  /\ UNCHANGED << manifests, kindDeleteOrder, waitFlag, resources,
                  deleteOrderResourceMap, deleteOrderedKinds, kindIdx, resIdx,
                  removeLog >>

\* deleteOrderResourceMap, deleteOrderedKinds :=
\*   buildDeleteKindOrderedResources(kindDeleteOrder, resources, targetNS, crdGVKMap, waitFlag)
BuildDeleteKindOrderedResources ==
  /\ pc = "buildDeleteKindOrderedResources"
  /\ UNCHANGED otherVars
  /\ LET res == buildDeleteKindOrderedResources(kindDeleteOrder, resources,
                                                TargetNS, crdGVKMap, waitFlag)
         pos == NextPosition(res.m, res.kinds, 1, 1)
     IN /\ IF res.panicked
           THEN /\ pc' = "panic"
                /\ UNCHANGED << deleteOrderResourceMap, deleteOrderedKinds, kindIdx,
                                resIdx >>
           ELSE /\ pc' = "deleteManifestResource"
                /\ deleteOrderResourceMap' = res.m
                /\ deleteOrderedKinds' = res.kinds
                /\ kindIdx' = pos.k
                /\ resIdx' = pos.j
        /\ kindDeleteOrder' = IF res.panicked THEN kindDeleteOrder
                              ELSE KindOrderAfterGetOrderedKinds(kindDeleteOrder)
  /\ UNCHANGED clearVars
  /\ UNCHANGED << manifests, waitFlag, resources, crdGVKMap, removeLog >>

\* one call deleteManifestResource(r, targetNS, kubernetesApplier): Remove is
\* called and succeeds or fails; a failure is logged and the loops go on
DeleteManifestResource ==
  /\ pc = "deleteManifestResource"
  /\ UNCHANGED otherVars
  /\ kindIdx <= Len(deleteOrderedKinds)
  /\ \E failed \in BOOLEAN :
       LET r == MapGet(deleteOrderResourceMap, deleteOrderedKinds[kindIdx])[resIdx]
           call == deleteManifestResource(r, TargetNS)
       IN removeLog' = Append(removeLog,
                              [ Index |-> call.Index, manifest |-> call.manifest,
                                namespace |-> call.namespace, wait |-> call.wait,
                                failed |-> failed ])
  /\ LET pos == NextPosition(deleteOrderResourceMap, deleteOrderedKinds,
                             kindIdx, resIdx + 1)
     IN kindIdx' = pos.k /\ resIdx' = pos.j
  /\ UNCHANGED clearVars
  /\ UNCHANGED << pc, manifests, kindDeleteOrder, waitFlag, resources, crdGVKMap,
                  deleteOrderResourceMap, deleteOrderedKinds >>

\* the loops of deleteManifestResources are over: the call returns
Return ==
  /\ pc = "deleteManifestResource"
  /\ UNCHANGED otherVars
  /\ kindIdx > Len(deleteOrderedKinds)
  /\ pc' = "done"
  /\ UNCHANGED clearVars
  /\ UNCHANGED << manifests, kindDeleteOrder, waitFlag, resources, crdGVKMap,
                  deleteOrderResourceMap, deleteOrderedKinds, kindIdx, resIdx,
                  removeLog >>

Next ==
  \/ DecodeManifests
  \/ BuildCrdGVKMap
  \/ BuildDeleteKindOrderedResources
  \/ DeleteManifestResource
  \/ Return

Spec == Init /\ [][Next]_vars

\* ------------------------------------------------------------ the cluster
\* the application whose objects clearNamespaces removes (appSlug)
AppSlug == "app"

gvrPods == [Group |-> "", Version |-> "v1", Resource |-> "pods"]
gvrFoos == [Group |-> "g", Version |-> "v1", Resource |-> "foos"]
gvrEvents == [Group |-> "", Version |-> "v1", Resource |-> "events"]

\* the gvrs argument of clearNamespaces
ClusterGVRs == {gvrPods, gvrFoos, gvrEvents}

\* the resource types clearNamespaces never lists
skip ==
  { "/v1/bindings", "/v1/events", "extensions/v1beta1/replicationcontrollers",
    "apps/v1/controllerrevisions", "authentication.k8s.io/v1/tokenreviews",
    "authorization.k8s.io/v1/localsubjectaccessreviews",
    "authorization.k8s.io/v1/subjectaccessreviews",
    "authorization.k8s.io/v1/selfsubjectaccessreviews",
    "authorization.k8s.io/v1/selfsubjectrulesreviews" }

\* variant: the resource comes before the version
GVRString_ResourceFirst(gvr) == gvr.Group \o "/" \o gvr.Resource \o "/" \o gvr.Version

\* fmt.Sprintf("%s/%s/%s", gvr.Group, gvr.Version, gvr.Resource)
GVRString(gvr) == gvr.Group \o "/" \o gvr.Version \o "/" \o gvr.Resource

\* The objects a cluster can hold, in the order a list call returns them (by
\* name).  slug is the kots.io/app-slug annotation, exclude the label
\* velero.io/exclude-from-backup=true, matches whether the labels match the
\* restore label selector.
ClusterObject(name, gvr, kind, namespace, slug, exclude, matches) ==
  [ name |-> name, gvr |-> gvr, kind |-> kind, namespace |-> namespace,
    slug |-> slug, exclude |-> exclude, matches |-> matches ]

ClusterObjects ==
  << ClusterObject("ev-app", gvrEvents, "Event", "ns1", "app", FALSE, TRUE),
     ClusterObject("foo-app", gvrFoos, "Foo", "ns1", "app", TRUE, TRUE),
     ClusterObject("foo-ns3", gvrFoos, "Foo", "ns3", "app", FALSE, FALSE),
     ClusterObject("pod-app", gvrPods, "Pod", "ns1", "app", FALSE, FALSE),
     ClusterObject("pod-ns2", gvrPods, "Pod", "ns2", "app", FALSE, TRUE),
     ClusterObject("pod-ns3a", gvrPods, "Pod", "ns3", "app", FALSE, TRUE),
     ClusterObject("pod-ns3b", gvrPods, "Pod", "ns3", "app", TRUE, TRUE),
     ClusterObject("pod-ns4", gvrPods, "Pod", "ns4", "app", FALSE, TRUE),
     ClusterObject("pod-other", gvrPods, "Pod", "ns1", "other", FALSE, TRUE),
     ClusterObject("pod-zed", gvrPods, "Pod", "ns0", "other", FALSE, TRUE) >>

ObjectNames == {ClusterObjects[x].name : x \in 1..Len(ClusterObjects)}
ObjectNamed(name) ==
  ClusterObjects[CHOOSE x \in 1..Len(ClusterObjects) : ClusterObjects[x].name = name]

\* an object is absent, live, or live with a deletion timestamp
Statuses == {"absent", "live", "terminating"}

\* the objects controllers and finalizers create and remove on their own
Dynamic == {"pod-app"}

\* the objects that need not exist when clearNamespaces is called
Optional == {"foo-app", "pod-app"}

\* variant: the list is not restricted to the namespace
ListItems_AllNamespaces(cluster, gvr, namespace) ==
  SelectSeq(ClusterObjects, LAMBDA o : o.gvr = gvr /\ cluster[o.name] # "absent")

\* dyn.Resource(gvr).Namespace(namespace).List: the items present, by name
ListItems(cluster, gvr, namespace) ==
  SelectSeq(ClusterObjects,
            LAMBDA o : o.gvr = gvr /\ o.namespace = namespace
                         /\ cluster[o.name] # "absent")

\* the orders in which a range over a Go map can yield the elements of S
Orderings(S) ==
  {f \in [1..Cardinality(S) -> S] :
     \A a, b \in 1..Cardinality(S) : f[a] = f[b] => a = b}

\* -------------------------------- buildDeleteKindOrderedNamespaceResources
\* The body of the loop over the items of one list, for item u.  acc holds
\* deleteOrdererResourceMap (m), defaultKindOrder (order), the error returned
\* (err), the names of the owned objects put in a bucket (found) and the
\* resource types List was called for (listed) and failed for (failed); last is
\* the last item of the list: without a per-iteration loop variable every
\* resource of the list points to the variable u, which holds that item once
\* the loop is over.
ListedItem(acc, u, gvr, cluster, restore, selector, perIteration, last) ==
  IF acc.err THEN acc
  ELSE IF restore /\ u.exclude THEN acc
  ELSE IF restore /\ selector = "invalid" THEN [acc EXCEPT !.err = TRUE]
  ELSE IF restore /\ selector = "valid" /\ ~u.matches THEN acc
  ELSE IF u.slug # AppSlug THEN acc
  ELSE IF cluster[u.name] = "terminating" THEN acc
  ELSE
    LET r == [ GVR |-> gvr, Kind |-> u.kind, Name |-> u.name,
               Unstructured |-> IF perIteration THEN u.name ELSE last.name ]
        fresh == u.kind \notin DOMAIN acc.m
        m1 == IF fresh THEN MapPut(acc.m, u.kind, <<>>) ELSE acc.m
    IN [acc EXCEPT
          !.order = IF fresh THEN Append(acc.order, u.kind) ELSE acc.order,
          !.m = MapPut(m1, u.kind, Append(m1[u.kind], r)),
          !.found = acc.found \cup {u.name}]

RECURSIVE ListedItems(_, _, _, _, _, _, _, _)
ListedItems(acc, items, j, gvr, cluster, restore, selector, perIteration) ==
  IF j > Len(items) THEN acc
  ELSE ListedItems(ListedItem(acc, items[j], gvr, cluster, restore, selector,
                              perIteration, items[Len(items)]),
                   items, j + 1, gvr, cluster, restore, selector, perIteration)

\* the loop over gvrs: a list call that fails (gvr \in failing) is skipped
RECURSIVE ListedGVRs(_, _, _, _, _, _, _, _, _)
ListedGVRs(acc, gvrs, g, failing, cluster, namespace, restore, selector, perIteration) ==
  IF g > Len(gvrs) \/ acc.err THEN acc
  ELSE ListedGVRs(
         IF gvrs[g] \in failing
         THEN [acc EXCEPT !.listed = acc.listed \cup {gvrs[g]},
                          !.failed = acc.failed \cup {gvrs[g]}]
         ELSE ListedItems([acc EXCEPT !.listed = acc.listed \cup {gvrs[g]}],
                          ListItems(cluster, gvrs[g], namespace), 1, gvrs[g],
                          cluster, restore, selector, perIteration),
         gvrs, g + 1, failing, cluster, namespace, restore, selector, perIteration)

\* buildDeleteKindOrderedNamespaceResources: (map, ordered kinds, err); the
\* map and the kinds are nil when the label selector cannot be converted
buildDeleteKindOrderedNamespaceResources(gvrs, failing, cluster, namespace, restore, selector, deleteKindOrder, perIteration) ==
  LET acc == ListedGVRs([ m |-> initResourceKindOrderMap(deleteKindOrder),
                          order |-> <<>>, err |-> FALSE, found |-> {},
                          listed |-> {}, failed |-> {} ],
                        gvrs, 1, failing, cluster, namespace, restore, selector,
                        perIteration)
  IN [ err |-> acc.err,
       m |-> IF acc.err THEN <<>> ELSE acc.m,
       kinds |-> IF acc.err THEN <<>> ELSE getOrderedKinds(deleteKindOrder, acc.order),
       found |-> acc.found, listed |-> acc.listed, failed |-> acc.failed ]

\* ---------------------------------------------------------- clearNamespaces
\* the first value of the loop counter i
RetryBudget == 60

\* variant: the loop counter is not decremented
NextRetry_Same(i) == i

\* the post statement of the loop, i--
NextRetry(i) == i - 1

\* what a Delete call for an object in the given state can do: fail with
\* not-found when the object is gone; otherwise fail and change nothing, or
\* succeed and leave the object gone or with a deletion timestamp
DeleteOutcomes(status) ==
  IF status = "absent" THEN {[err |-> TRUE, status |-> "absent"]}
  ELSE { [err |-> TRUE, status |-> status], [err |-> FALSE, status |-> "absent"],
         [err |-> FALSE, status |-> "terminating"] }

\* what the objects of a namespace can become during a sleep
ClusterAfterSleep(cluster, namespace) ==
  LET moving == {n \in Dynamic : ObjectNamed(n).namespace = namespace}
  IN {[n \in DOMAIN cluster |-> IF n \in moving THEN f[n] ELSE cluster[n]] :
        f \in [moving -> Statuses]}

\* the state at the call of clearNamespaces, for a call with the given
\* isRestore, one of the given namespace lists and one of the given tables
InitClearCall(restore, namespaceLists, kindOrders) ==
  /\ pc = "clearNamespaces"
  /\ OtherIdle
  /\ kindDeleteOrder \in kindOrders
  /\ namespacesToClear \in namespaceLists
  /\ isRestore = restore
  /\ restoreLabelSelector \in (IF restore THEN {"nil", "valid", "invalid"} ELSE {"nil"})
  /\ loopVarPerIteration \in BOOLEAN
  /\ LET cleared == {n \in Optional :
                        ObjectNamed(n).namespace \in Range(namespacesToClear)}
     IN \E f \in [cleared -> Statuses] :
          objects = [n \in ObjectNames |-> IF n \in cleared THEN f[n] ELSE "live"]
  /\ deletionGVRs = {}
  /\ nsIdx = 1
  /\ retry = 0
  /\ resourcesToDelete = <<>>
  /\ deleteCalls = <<>>
  /\ lastFound = [n \in 1..Len(namespacesToClear) |-> {}]
  /\ listLog = [listed |-> {}, failed |-> {}, err |-> FALSE]
  /\ listPasses = 0
  /\ retrySleeps = 0
  /\ graceSleeps = 0
  /\ result = "none"
  /\ deleteOrderedKinds = <<>>
  /\ kindIdx = 1
  /\ resIdx = 1
  /\ manifests = <<>>
  /\ waitFlag = FALSE
  /\ resources = <<>>
  /\ crdGVKMap = {}
  /\ deleteOrderResourceMap = <<>>
  /\ removeLog = <<>>

\* ... for a call with the default table
InitClearWith(restore, namespaceLists) ==
  InitClearCall(restore, namespaceLists, {defaultKindDeleteOrder})

InitClear == InitClearWith(FALSE, { <<>>, << "ns1" >>, << "ns2", "ns4" >> })

InitClearRestore == InitClearWith(TRUE, { <<>>, << "ns1" >>, << "ns3" >> })

\* a namespace that holds three objects of the application
InitClearThree == InitClearWith(FALSE, { << "ns3" >> })

\* ... with either table
InitClearOrders == InitClearCall(FALSE, { << "ns3" >> }, KindOrders)

\* a namespace that holds no object of the application, then one that does
InitClearEmpty == InitClearWith(FALSE, { << "ns0", "ns2" >> })

\* the loop of a namespace is left by break: "successfully cleared" is
\* logged and the next namespace follows, or the grace sleep after the last
\* variant: the grace sleep follows the first namespace
BreakTo_GraceEarly(what) ==
  IF what = "pc" THEN "grace"
  ELSE IF what = "nsIdx" THEN nsIdx
  ELSE RetryBudget

BreakTo(what) ==
  IF what = "pc" THEN (IF nsIdx < Len(namespacesToClear) THEN "list" ELSE "grace")
  ELSE IF what = "nsIdx" THEN (IF nsIdx < Len(namespacesToClear) THEN nsIdx + 1 ELSE nsIdx)
  ELSE RetryBudget

\* entry: the resource types outside the skip list are kept
ClearNamespaces ==
  /\ pc = "clearNamespaces"
  /\ UNCHANGED otherVars
  /\ deletionGVRs' = {gvr \in ClusterGVRs : GVRString(gvr) \notin skip}
  /\ IF namespacesToClear = <<>>
     THEN pc' = "returned" /\ result' = "nil" /\ UNCHANGED retry
     ELSE pc' = "list" /\ retry' = RetryBudget /\ UNCHANGED result
  /\ UNCHANGED << kindDeleteOrder, deleteOrderedKinds, kindIdx, resIdx, deleteVars,
                  namespacesToClear, isRestore, restoreLabelSelector,
                  loopVarPerIteration, nsIdx, objects, resourcesToDelete,
                  deleteCalls, lastFound, listPasses, retrySleeps, graceSleeps >>
  /\ UNCHANGED listLog

\* one list pass: buildDeleteKindOrderedNamespaceResources and the two
\* checks of its result
ListPass ==
  /\ pc = "list"
  /\ UNCHANGED otherVars
  /\ \E gvrs \in Orderings(deletionGVRs), failing \in SUBSET deletionGVRs :
       LET res == buildDeleteKindOrderedNamespaceResources(
                    gvrs, failing, objects, namespacesToClear[nsIdx], isRestore,
                    restoreLabelSelector, kindDeleteOrder, loopVarPerIteration)
           pos == NextPosition(res.m, res.kinds, 1, 1)
           first == retry = RetryBudget
       IN /\ lastFound' = [lastFound EXCEPT ![nsIdx] = res.found]
          /\ listPasses' = IF first THEN 1 ELSE listPasses + 1
          /\ retrySleeps' = IF first THEN 0 ELSE retrySleeps
          /\ deleteCalls' = <<>>
          /\ listLog' = [listed |-> res.listed, failed |-> res.failed, err |-> res.err]
          /\ resourcesToDelete' = res.m
          /\ deleteOrderedKinds' = res.kinds
          /\ IF res.err \/ DOMAIN res.m = {}
             THEN /\ pc' = BreakTo("pc")
                  /\ nsIdx' = BreakTo("nsIdx")
                  /\ retry' = BreakTo("retry")
                  /\ UNCHANGED << kindIdx, resIdx >>
             ELSE /\ pc' = "delete"
                  /\ kindIdx' = pos.k
                  /\ resIdx' = pos.j
                  /\ UNCHANGED << nsIdx, retry >>
          /\ kindDeleteOrder' = IF res.err THEN kindDeleteOrder
                                ELSE KindOrderAfterGetOrderedKinds(kindDeleteOrder)
  /\ UNCHANGED << deleteVars, namespacesToClear, isRestore,
                  restoreLabelSelector, loopVarPerIteration, deletionGVRs, objects,
                  graceSleeps, result >>

\* where the call goes after a Delete call, given whether Delete returned an
\* error and the loop counter i: on with the pass, or out of
\* clearNamespacedResources with the error and then to the sleep or, when i
\* is 0, to the error return
\* variant: the error of Delete is only logged and the pass goes on
AfterDelete_ErrorIgnored(err, i) == "delete"

\* variant: at i = 0 the call sleeps and iterates again
AfterDelete_ExhaustedGoesOn(err, i) == IF ~err THEN "delete" ELSE "sleep"

AfterDelete(err, i) ==
  IF ~err THEN "delete" ELSE IF i = 0 THEN "returned" ELSE "sleep"

\* clearNamespacedResources: one Delete call; the first error ends the pass,
\* and with it the call when the counter is at 0
DeleteResource ==
  /\ pc = "delete"
  /\ UNCHANGED otherVars
  /\ kindIdx <= Len(deleteOrderedKinds)
  /\ LET r == MapGet(resourcesToDelete, deleteOrderedKinds[kindIdx])[resIdx]
         name == r.Unstructured
         pos == NextPosition(resourcesToDelete, deleteOrderedKinds, kindIdx, resIdx + 1)
     IN \E out \in DeleteOutcomes(objects[name]) :
          /\ deleteCalls' = Append(deleteCalls,
                                   [ GVR |-> r.GVR, name |-> name, found |-> r.Name,
                                     was |-> objects[name], err |-> out.err ])
          /\ objects' = [objects EXCEPT ![name] = out.status]
          /\ pc' = AfterDelete(out.err, retry)
          /\ result' = IF AfterDelete(out.err, retry) = "returned" THEN "error"
                       ELSE result
          /\ IF AfterDelete(out.err, retry) = "delete"
             THEN kindIdx' = pos.k /\ resIdx' = pos.j
             ELSE UNCHANGED << kindIdx, resIdx >>
  /\ UNCHANGED << kindDeleteOrder, deleteOrderedKinds, deleteVars, namespacesToClear,
                  isRestore, restoreLabelSelector, loopVarPerIteration, deletionGVRs,
                  nsIdx, retry, resourcesToDelete, lastFound, listPasses,
                  retrySleeps, graceSleeps >>
  /\ UNCHANGED listLog

\* clearNamespacedResources returns nil: the loop of the namespace is left
DeletesSucceeded ==
  /\ pc = "delete"
  /\ UNCHANGED otherVars
  /\ kindIdx > Len(deleteOrderedKinds)
  /\ pc' = BreakTo("pc")
  /\ nsIdx' = BreakTo("nsIdx")
  /\ retry' = BreakTo("retry")
  /\ UNCHANGED << kindDeleteOrder, deleteOrderedKinds, kindIdx, resIdx, deleteVars,
                  namespacesToClear, isRestore, restoreLabelSelector,
                  loopVarPerIteration, deletionGVRs, objects, resourcesToDelete,
                  deleteCalls, lastFound, listPasses, retrySleeps, graceSleeps,
                  result >>
  /\ UNCHANGED listLog

\* time.Sleep(sleepTime), then i--; the cluster moves on meanwhile
RetrySleep ==
  /\ pc = "sleep"
  /\ UNCHANGED otherVars
  /\ objects' \in ClusterAfterSleep(objects, namespacesToClear[nsIdx])
  /\ retrySleeps' = retrySleeps + 1
  /\ retry' = NextRetry(retry)
  /\ pc' = "list"
  /\ UNCHANGED << kindDeleteOrder, deleteOrderedKinds, kindIdx, resIdx, deleteVars,
                  namespacesToClear, isRestore, restoreLabelSelector,
                  loopVarPerIteration, deletionGVRs, nsIdx, resourcesToDelete,
                  deleteCalls, lastFound, listPasses, graceSleeps, result >>
  /\ UNCHANGED listLog

\* time.Sleep(time.Second * 20), then return nil
GraceSleep ==
  /\ pc = "grace"
  /\ UNCHANGED otherVars
  /\ graceSleeps' = graceSleeps + 1
  /\ result' = "nil"
  /\ pc' = "returned"
  /\ UNCHANGED << kindDeleteOrder, deleteOrderedKinds, kindIdx, resIdx, deleteVars,
                  namespacesToClear, isRestore, restoreLabelSelector,
                  loopVarPerIteration, deletionGVRs, nsIdx, retry, objects,
                  resourcesToDelete, deleteCalls, lastFound, listPasses,
                  retrySleeps >>
  /\ UNCHANGED listLog

NextClear ==
  \/ ClearNamespaces
  \/ ListPass
  \/ DeleteResource
  \/ DeletesSucceeded
  \/ RetrySleep
  \/ GraceSleep

SpecClear == InitClear /\ [][NextClear]_vars

SpecClearRestore == InitClearRestore /\ [][NextClear]_vars

SpecClearThree == InitClearThree /\ [][NextClear]_vars

SpecClearOrders == InitClearOrders /\ [][NextClear]_vars

SpecClearEmpty == InitClearEmpty /\ [][NextClear]_vars

\* ------------------------------ buildDeleteKindOrderedResources called alone
\* a call with the table customFirstKindOrder, a batch of four kinds and a
\* CRD index that holds the custom kind, followed by the removal loops
InitFourKinds ==
  /\ pc = "buildDeleteKindOrderedResources"
  /\ OtherIdle
  /\ manifests \in FourKindBatches
  /\ kindDeleteOrder = customFirstKindOrder
  /\ waitFlag \in BOOLEAN
  /\ resources = decodeManifests(manifests)
  /\ crdGVKMap = {"g/Foo/v1"}
  /\ deleteOrderResourceMap = <<>>
  /\ deleteOrderedKinds = <<>>
  /\ kindIdx = 1
  /\ resIdx = 1
  /\ removeLog = <<>>
  /\ namespacesToClear = <<>>
  /\ isRestore = FALSE
  /\ restoreLabelSelector = "nil"
  /\ loopVarPerIteration = FALSE
  /\ deletionGVRs = {}
  /\ nsIdx = 1
  /\ retry = 0
  /\ objects = <<>>
  /\ resourcesToDelete = <<>>
  /\ deleteCalls = <<>>
  /\ lastFound = <<>>
  /\ listLog = [listed |-> {}, failed |-> {}, err |-> FALSE]
  /\ listPasses = 0
  /\ retrySleeps = 0
  /\ graceSleeps = 0
  /\ result = "none"

NextFourKinds ==
  \/ BuildDeleteKindOrderedResources
  \/ DeleteManifestResource
  \/ Return

SpecFourKinds == InitFourKinds /\ [][NextFourKinds]_vars

\* ------------------------------------------------ either function is called
InitAll == Init \/ InitClear

NextAll == Next \/ NextClear

SpecAll == InitAll /\ [][NextAll]_vars

\* no call of deleteManifestResources or clearNamespaces is under way
OrderIdle ==
  /\ kindDeleteOrder = defaultKindDeleteOrder
  /\ manifests = <<>>
  /\ waitFlag = FALSE
  /\ resources = <<>>
  /\ crdGVKMap = {}
  /\ deleteOrderResourceMap = <<>>
  /\ deleteOrderedKinds = <<>>
  /\ kindIdx = 1
  /\ resIdx = 1
  /\ removeLog = <<>>
  /\ namespacesToClear = <<>>
  /\ isRestore = FALSE
  /\ restoreLabelSelector = "nil"
  /\ loopVarPerIteration = FALSE
  /\ deletionGVRs = {}
  /\ nsIdx = 1
  /\ retry = 0
  /\ objects = <<>>
  /\ resourcesToDelete = <<>>
  /\ deleteCalls = <<>>
  /\ lastFound = <<>>
  /\ listLog = [listed |-> {}, failed |-> {}, err |-> FALSE]
  /\ listPasses = 0
  /\ retrySleeps = 0
  /\ graceSleeps = 0
  /\ result = "none"

\* ---------------------------------------------------------------- deletePVCs
\* most pods a List call returns
MaxPods == 2

\* the label deletePVCs selects the pods of the application with
SlugLabel == "kots.io/app-slug"

\* a *metav1.LabelSelector: Nil, or Some of an object whose MatchLabels is a
\* nil map (Nil) or Some map from label names to values
LabelSelector(matchLabels) == Some([MatchLabels |-> matchLabels])
SelectorObjects ==
  { Nil, LabelSelector(Nil), LabelSelector(Some(<<>>)),
    LabelSelector(Some(MapPut(<<>>, "app", "x"))) }

\* the volumes of a pod: the claim name of a volume backed by a
\* PersistentVolumeClaim, "" for any other volume
ClaimNames == {"data", "logs"}
PodVolumes == { <<>>, << "data" >>, << "", "logs" >>, << "data", "logs" >> }
PodLists == SeqsUpTo(PodVolumes, MaxPods)

\* lines 388-393: the selector deletePVCs goes on with and the caller's object
\* afterwards; a nil selector is replaced by a fresh one, any other is written
\* through the pointer, and the write panics when its MatchLabels is a nil map
WithSlugLabel(selector, slug) ==
  LabelSelector(Some(MapPut(Deref(Deref(selector).MatchLabels), SlugLabel, slug)))
SetSlugLabel(caller, slug) ==
  LET local == IF caller = Nil THEN LabelSelector(Some(<<>>)) ELSE caller
  IN IF Deref(local).MatchLabels = Nil
     THEN [panicked |-> TRUE, local |-> local, caller |-> caller]
     ELSE [ panicked |-> FALSE, local |-> WithSlugLabel(local, slug),
            caller |-> IF caller = Nil THEN Nil ELSE WithSlugLabel(local, slug) ]

\* lines 402-409: the claim names of the volumes of the listed pods, in order
RECURSIVE ClaimsOfVolumes(_)
ClaimsOfVolumes(volumes) ==
  IF volumes = <<>> THEN <<>>
  ELSE (IF Head(volumes) # "" THEN << Head(volumes) >> ELSE <<>>)
         \o ClaimsOfVolumes(Tail(volumes))
RECURSIVE ClaimsOfPods(_)
ClaimsOfPods(pods) ==
  IF pods = <<>> THEN <<>>
  ELSE ClaimsOfVolumes(Head(pods)) \o ClaimsOfPods(Tail(pods))

\* what a Delete call for a claim can return
PvcDeleteOutcomes(present) ==
  IF present THEN {"ok", "error"} ELSE {"notFound", "error"}

\* line 426: the Delete error that ends deletePVCs
\* variant: a not-found error ends the call too
PvcDeleteFails_NotFoundToo(outcome) == outcome # "ok"

PvcDeleteFails(outcome) == outcome = "error"

InitPVC ==
  /\ pc = "deletePVCs"
  /\ OrderIdle
  /\ ImagesIdle /\ DuiIdle /\ PushIdle /\ GroupIdle
  /\ callerSelector \in SelectorObjects
  /\ selectorAtCall = callerSelector
  /\ appLabelSelector = Nil
  /\ podsList \in PodLists
  /\ claims \in SUBSET ClaimNames
  /\ pvcs = <<>>
  /\ pvcIdx = 1
  /\ pvcDeletes = <<>>
  /\ pvcResult = "none"

\* entry: the app-slug label is written into the selector
DeletePVCs ==
  /\ UNCHANGED << imageVars, duiVars, pushVars, groupVars >>
  /\ pc = "deletePVCs"
  /\ LET res == SetSlugLabel(callerSelector, AppSlug)
     IN /\ pc' = IF res.panicked THEN "panic" ELSE "listPods"
        /\ appLabelSelector' = IF res.panicked THEN appLabelSelector ELSE res.local
        /\ callerSelector' = res.caller
  /\ UNCHANGED << selectorAtCall, podsList, claims, pvcs, pvcIdx, pvcDeletes,
                  pvcResult >>
  /\ UNCHANGED orderVars

\* the pods are listed and the claim names of their volumes collected
ListPods ==
  /\ UNCHANGED << imageVars, duiVars, pushVars, groupVars >>
  /\ pc = "listPods"
  /\ \E err \in BOOLEAN :
       IF err
       THEN /\ pvcResult' = "listError"
            /\ pc' = "pvcReturned"
            /\ UNCHANGED pvcs
       ELSE /\ pvcs' = ClaimsOfPods(podsList)
            /\ pc' = IF pvcs' = <<>> THEN "pvcReturned" ELSE "deletePvc"
            /\ pvcResult' = IF pvcs' = <<>> THEN "nil" ELSE pvcResult
  /\ UNCHANGED << callerSelector, selectorAtCall, appLabelSelector, podsList,
                  claims, pvcIdx, pvcDeletes >>
  /\ UNCHANGED orderVars

\* one Delete call of the loop over pvcs; the call returns after the loop
DeletePvc ==
  /\ UNCHANGED << imageVars, duiVars, pushVars, groupVars >>
  /\ pc = "deletePvc"
  /\ \E out \in PvcDeleteOutcomes(pvcs[pvcIdx] \in claims) :
       /\ pvcDeletes' = Append(pvcDeletes, [name |-> pvcs[pvcIdx], out |-> out])
       /\ claims' = IF out = "ok" THEN claims \ {pvcs[pvcIdx]} ELSE claims
       /\ IF PvcDeleteFails(out)
          THEN pc' = "pvcReturned" /\ pvcResult' = "deleteError" /\ UNCHANGED pvcIdx
          ELSE /\ pvcIdx' = pvcIdx + 1
               /\ pc' = IF pvcIdx = Len(pvcs) THEN "pvcReturned" ELSE "deletePvc"
               /\ pvcResult' = IF pvcIdx = Len(pvcs) THEN "nil" ELSE pvcResult
  /\ UNCHANGED << callerSelector, selectorAtCall, appLabelSelector, podsList, pvcs >>
  /\ UNCHANGED orderVars

NextPVC ==
  \/ DeletePVCs
  \/ ListPods
  \/ DeletePvc

SpecPVC == InitPVC /\ [][NextPVC]_vars

\* lines 330-338 of buildDeleteKindOrderedNamespaceResources: whether an object
\* with the given labels passes the restore label selector (a nil selector
\* filters nothing; every label of MatchLabels must be carried with its value)
LabelsMatch(selector, labels) ==
  \/ selector = Nil
  \/ Deref(selector).MatchLabels = Nil
  \/ LET matchLabels == Deref(Deref(selector).MatchLabels)
     IN \A k \in DOMAIN matchLabels :
          k \in DOMAIN labels /\ labels[k] = matchLabels[k]

\* the labels of the objects a later clearNamespaces call lists
ObjectLabels ==
  { <<>>, MapPut(<<>>, "app", "x"),
    MapPut(MapPut(<<>>, "app", "x"), SlugLabel, AppSlug) }

\* ------------------------------------------------------- deleteUnusedImages
\* most timestamp updates of the task monitors
MaxTimestampUpdates == 1

\* the invocations that can run at the same time
Invocations == {1, 2}

\* the digests the registry holds when the invocations start, and the digest
\* a used image resolves to ("u2" is an image the registry does not hold)
RegistryContents == {"d1", "d2"}
ImageDigest(usedImage) == IF usedImage = "u1" THEN "d1" ELSE "d9"
UsedImageLists == { <<>>, << "u1" >>, << "u2", "u1" >> }

\* the task status after ClearTaskStatus and after
\* SetTaskStatus(deleteImagesTaskID, message, status)
ClearedTaskStatus == [status |-> "", message |-> ""]
SetTaskStatus(message, status) == [status |-> status, message |-> message]

\* The loop over usedImages (lines 703-727) from image i on.  outcome[i] tells
\* whether GetDigest answers ("ok") or fails with an error other than 404
\* ("error"); an image whose digest the registry does not hold gets 404 and is
\* skipped.  The result: whether the loop returned an error, and the digests
\* resolved, which are deleted from the map digestsInRegistry.
RECURSIVE ResolveUsedImages(_, _, _, _, _)
ResolveUsedImages(images, i, present, outcome, resolved) ==
  IF i > Len(images) THEN [err |-> FALSE, resolved |-> resolved]
  ELSE IF outcome[i] = "error" THEN [err |-> TRUE, resolved |-> resolved]
  ELSE IF ImageDigest(images[i]) \notin present
       THEN ResolveUsedImages(images, i + 1, present, outcome, resolved)
  ELSE ResolveUsedImages(images, i + 1, present, outcome,
                         resolved \cup {ImageDigest(images[i])})

\* delete(digestsInRegistry, digest): what is left of the map once the
\* resolved digests are taken out
\* variant: the resolved digests stay in the map
DigestsToDelete_ResolvedStay(inRegistry, resolved) == inRegistry

DigestsToDelete(inRegistry, resolved) == inRegistry \ resolved

\* the status the monitor stores when it has received finalError
\* variant: the status is cleared whatever the error
StatusAtEnd_AlwaysCleared(err) == ClearedTaskStatus

StatusAtEnd(err) ==
  IF err = "nil" THEN ClearedTaskStatus ELSE SetTaskStatus(err, "failed")

\* the state when the given invocations are called
InitImagesWith(invocationSets) ==
  /\ pc = "deleteUnusedImages"
  /\ OrderIdle
  /\ PvcIdle /\ DuiIdle /\ PushIdle /\ GroupIdle
  /\ procs \in invocationSets
  /\ hostname \in {"", "registry"}
  /\ usedImages \in UsedImageLists
  /\ taskStatus \in {ClearedTaskStatus, SetTaskStatus("Searching registry...", "running")}
  /\ timestampUpdates = 0
  /\ registryDigests = RegistryContents
  /\ ipc = [p \in procs |-> "start"]
  /\ currentStatus = [p \in procs |-> ""]
  /\ digestsInRegistry = [p \in procs |-> {}]
  /\ resolvedDigests = [p \in procs |-> {}]
  /\ deletedDigests = [p \in procs |-> {}]
  /\ finalError = [p \in procs |-> "nil"]
  /\ monitor = [p \in procs |-> "none"]
  /\ monitorError = [p \in procs |-> "nil"]

InitImages == InitImagesWith({{1}, {1, 2}})

\* the frame of the actions of deleteUnusedImages
ImagesFrame ==
  /\ UNCHANGED << pc, orderVars, pvcVars, duiVars, pushVars, groupVars >>
  /\ UNCHANGED << procs, hostname, usedImages >>

\* lines 623-630: the hostname test and GetTaskStatus
GetTaskStatus(p) ==
  /\ ipc[p] = "start"
  /\ \E err \in BOOLEAN :
       IF hostname = ""
       THEN /\ ipc' = [ipc EXCEPT ![p] = "returned"]
            /\ UNCHANGED << currentStatus, finalError >>
       ELSE IF err
       THEN /\ ipc' = [ipc EXCEPT ![p] = "returned"]
            /\ finalError' = [finalError EXCEPT ![p] = "failed to get task status"]
            /\ UNCHANGED currentStatus
       ELSE /\ ipc' = [ipc EXCEPT ![p] = "check"]
            /\ currentStatus' = [currentStatus EXCEPT ![p] = taskStatus.status]
            /\ UNCHANGED finalError
  /\ UNCHANGED << taskStatus, timestampUpdates, registryDigests, digestsInRegistry,
                  resolvedDigests, deletedDigests, monitor, monitorError >>
  /\ ImagesFrame

\* lines 632-647: the already-running test, SetTaskStatus and the start of
\* the monitor goroutine
StartTask(p) ==
  /\ ipc[p] = "check"
  /\ \E err \in BOOLEAN :
       IF currentStatus[p] = "running"
       THEN /\ ipc' = [ipc EXCEPT ![p] = "returned"]
            /\ UNCHANGED << taskStatus, finalError, monitor >>
       ELSE IF err
       THEN /\ ipc' = [ipc EXCEPT ![p] = "returned"]
            /\ finalError' = [finalError EXCEPT ![p] = "failed to set task status"]
            /\ UNCHANGED << taskStatus, monitor >>
       ELSE /\ ipc' = [ipc EXCEPT ![p] = "search"]
            /\ taskStatus' = SetTaskStatus("Searching registry...", "running")
            /\ monitor' = [monitor EXCEPT ![p] = "waiting"]
            /\ UNCHANGED finalError
  /\ UNCHANGED << timestampUpdates, registryDigests, currentStatus,
                  digestsInRegistry, resolvedDigests, deletedDigests, monitorError >>
  /\ ImagesFrame

\* lines 660-701: SearchRegistry and the digests of the tags found; a tag
\* whose digest cannot be read is skipped
SearchRegistry(p) ==
  /\ ipc[p] = "search"
  /\ \E err \in BOOLEAN, skipped \in SUBSET registryDigests :
       IF err
       THEN /\ skipped = {}
            /\ finalError' = [finalError EXCEPT ![p] = "failed to search registry"]
            /\ ipc' = [ipc EXCEPT ![p] = "defer"]
            /\ UNCHANGED digestsInRegistry
       ELSE /\ digestsInRegistry' =
                 [digestsInRegistry EXCEPT ![p] = registryDigests \ skipped]
            /\ ipc' = [ipc EXCEPT ![p] = "resolve"]
            /\ UNCHANGED finalError
  /\ UNCHANGED << taskStatus, timestampUpdates, registryDigests, currentStatus,
                  resolvedDigests, deletedDigests, monitor, monitorError >>
  /\ ImagesFrame

\* lines 703-727: the digests of the used images leave the map
ResolveUsed(p) ==
  /\ ipc[p] = "resolve"
  /\ \E outcome \in [1..Len(usedImages) -> {"ok", "error"}] :
       LET res == ResolveUsedImages(usedImages, 1, registryDigests, outcome, {})
       IN /\ resolvedDigests' = [resolvedDigests EXCEPT ![p] = res.resolved]
          /\ digestsInRegistry' =
               [digestsInRegistry EXCEPT ![p] =
                  DigestsToDelete(digestsInRegistry[p], res.resolved)]
          /\ finalError' = [finalError EXCEPT ![p] =
                              IF res.err THEN "failed to get digest" ELSE "nil"]
          /\ ipc' = [ipc EXCEPT ![p] = IF res.err THEN "defer" ELSE "delete"]
  /\ UNCHANGED << taskStatus, timestampUpdates, registryDigests, currentStatus,
                  deletedDigests, monitor, monitorError >>
  /\ ImagesFrame

\* lines 729-742: DeleteImage for what is left in the map; a failure is logged
DeleteImages(p) ==
  /\ ipc[p] = "delete"
  /\ \E failed \in SUBSET digestsInRegistry[p] :
       LET deleted == (digestsInRegistry[p] \cap registryDigests) \ failed
       IN /\ deletedDigests' = [deletedDigests EXCEPT ![p] = deleted]
          /\ registryDigests' = registryDigests \ deleted
  /\ ipc' = [ipc EXCEPT ![p] = "gc"]
  /\ UNCHANGED << taskStatus, timestampUpdates, currentStatus, digestsInRegistry,
                  resolvedDigests, finalError, monitor, monitorError >>
  /\ ImagesFrame

\* lines 744-746: runGCCommand
RunGCCommand(p) ==
  /\ ipc[p] = "gc"
  /\ \E err \in BOOLEAN :
       finalError' = [finalError EXCEPT ![p] =
                        IF err THEN "failed to run garbage collect command" ELSE "nil"]
  /\ ipc' = [ipc EXCEPT ![p] = "defer"]
  /\ UNCHANGED << taskStatus, timestampUpdates, registryDigests, currentStatus,
                  digestsInRegistry, resolvedDigests, deletedDigests, monitor,
                  monitorError >>
  /\ ImagesFrame

\* the deferred calls: finalError is sent on the unbuffered channel, which the
\* monitor receives, and the channel is closed; the call returns
SendFinalError(p) ==
  /\ ipc[p] = "defer"
  /\ monitor[p] = "waiting"
  /\ monitorError' = [monitorError EXCEPT ![p] = finalError[p]]
  /\ monitor' = [monitor EXCEPT ![p] = "received"]
  /\ ipc' = [ipc EXCEPT ![p] = "returned"]
  /\ UNCHANGED << taskStatus, timestampUpdates, registryDigests, currentStatus,
                  digestsInRegistry, resolvedDigests, deletedDigests, finalError >>
  /\ ImagesFrame

\* the monitor: one second has passed, UpdateTaskStatusTimestamp
UpdateTaskStatusTimestamp(p) ==
  /\ monitor[p] = "waiting"
  /\ timestampUpdates < MaxTimestampUpdates
  /\ timestampUpdates' = timestampUpdates + 1
  /\ UNCHANGED << taskStatus, registryDigests, ipc, currentStatus,
                  digestsInRegistry, resolvedDigests, deletedDigests, finalError,
                  monitor, monitorError >>
  /\ ImagesFrame

\* the monitor's deferred function: ClearTaskStatus or SetTaskStatus(failed);
\* an error of the store is logged and the status stays as it is
FinishMonitor(p) ==
  /\ monitor[p] = "received"
  /\ \E err \in BOOLEAN :
       IF err
       THEN monitor' = [monitor EXCEPT ![p] = "storeError"] /\ UNCHANGED taskStatus
       ELSE /\ monitor' = [monitor EXCEPT ![p] = "done"]
            /\ taskStatus' = StatusAtEnd(monitorError[p])
  /\ UNCHANGED << timestampUpdates, registryDigests, ipc, currentStatus,
                  digestsInRegistry, resolvedDigests, deletedDigests, finalError,
                  monitorError >>
  /\ ImagesFrame

NextImages ==
  \/ \E p \in procs : GetTaskStatus(p)
  \/ \E p \in procs : StartTask(p)
  \/ \E p \in procs : SearchRegistry(p)
  \/ \E p \in procs : ResolveUsed(p)
  \/ \E p \in procs : DeleteImages(p)
  \/ \E p \in procs : RunGCCommand(p)
  \/ \E p \in procs : SendFinalError(p)
  \/ \E p \in procs : UpdateTaskStatusTimestamp(p)
  \/ \E p \in procs : FinishMonitor(p)

SpecImages == InitImages /\ [][NextImages]_vars

\* every call of the registry and of the store returns, and the Go scheduler
\* runs every goroutine that can take a step
FairSpecImages == SpecImages /\ WF_vars(NextImages)

\* ------------------------------------------------------- DeleteUnusedImages
\* most applications that share the registry
MaxApps == 2

\* What the store answers for an application of the registry: GetApp,
\* GetLatestAppVersion, IsRollbackSupportedForVersion, and the lookups of the
\* downstreams and their versions.
RegistryApp(getApp, latest, rollback, downstreams) == [getApp |-> getApp, latest |-> latest, rollback |-> rollback, downstreams |-> downstreams]

RegistryAppKinds ==
  { RegistryApp("ok", "ok", "no", "ok"),
    RegistryApp("ok", "ok", "yes", "ok"),
    RegistryApp("ok", "ok", "error", "ok"),
    RegistryApp("ok", "error", "no", "ok"),
    RegistryApp("ok", "ok", "no", "error"),
    RegistryApp("error", "ok", "no", "ok"),
    RegistryApp("error", "ok", "yes", "ok") }

RegistryAppLists == SeqsUpTo(RegistryAppKinds, MaxApps)

GateLookups == {"GetInstallationParams", "GetRegistryDetailsForApp", "GetAppIDsFromRegistry"}

\* One iteration of the loop over appIDs (lines 540-571): "next" when the
\* loop goes on, else what DeleteUnusedImages returns.  The error of GetApp is
\* wrapped and dropped (lines 541-544), so the fields of a are read whatever
\* GetApp returned: nilApp tells whether it returned a nil app with its error.
\* variant: the rollback check is left out
CheckApp_RollbackIgnored(app, ignore, nilApp) ==
  IF app.getApp = "error" /\ nilApp THEN "panic"
  ELSE IF app.downstreams = "error" THEN "failed to list downstreams for app"
  ELSE "next"

CheckApp(app, ignore, nilApp) ==
  IF app.getApp = "error" /\ nilApp THEN "panic"
  ELSE IF ~ignore /\ app.latest = "error" THEN "failed to get latest app version"
  ELSE IF ~ignore /\ app.rollback = "error" THEN "failed to check if rollback is supported"
  ELSE IF ~ignore /\ app.rollback = "yes" THEN "AppRollbackError"
  ELSE IF app.downstreams = "error" THEN "failed to list downstreams for app"
  ELSE "next"

\* the state when DeleteUnusedImages is called: no invocation of
\* deleteUnusedImages yet, the task status cleared, the registry full
InitDUI ==
  /\ pc = "DeleteUnusedImages"
  /\ OrderIdle
  /\ PvcIdle /\ PushIdle /\ GroupIdle
  /\ imageDeletionEnabled \in BOOLEAN
  /\ registryReadOnly \in BOOLEAN
  /\ kurl \in {"true", "false", "error"}
  /\ failingLookup \in GateLookups \cup {"none"}
  /\ ignoreRollback \in BOOLEAN
  /\ registryApps \in RegistryAppLists
  /\ appIdx = 1
  /\ duiResult = "none"
  /\ procs = {}
  /\ hostname = "registry"
  /\ usedImages = <<>>
  /\ taskStatus = ClearedTaskStatus
  /\ timestampUpdates = 0
  /\ registryDigests = RegistryContents
  /\ ipc = <<>>
  /\ currentStatus = <<>>
  /\ digestsInRegistry = <<>>
  /\ resolvedDigests = <<>>
  /\ deletedDigests = <<>>
  /\ finalError = <<>>
  /\ monitor = <<>>
  /\ monitorError = <<>>

\* the frame of the steps of DeleteUnusedImages before deleteUnusedImages
DuiFrame ==
  /\ UNCHANGED << orderVars, pvcVars, imageVars, pushVars, groupVars >>
  /\ UNCHANGED << imageDeletionEnabled, registryReadOnly, kurl, failingLookup,
                  ignoreRollback, registryApps >>

DuiReturn(returned) == pc' = "duiReturned" /\ duiResult' = returned /\ UNCHANGED appIdx

\* lines 505-511
GetInstallationParams ==
  /\ pc = "DeleteUnusedImages"
  /\ IF failingLookup = "GetInstallationParams"
     THEN DuiReturn("failed to get app registry info")
     ELSE IF ~imageDeletionEnabled THEN DuiReturn("nil")
     ELSE pc' = "getRegistryDetailsForApp" /\ UNCHANGED << appIdx, duiResult >>
  /\ DuiFrame

\* lines 513-520
GetRegistryDetailsForApp ==
  /\ pc = "getRegistryDetailsForApp"
  /\ IF failingLookup = "GetRegistryDetailsForApp"
     THEN DuiReturn("failed to get app registry info")
     ELSE IF registryReadOnly THEN DuiReturn("nil")
     ELSE pc' = "isKurl" /\ UNCHANGED << appIdx, duiResult >>
  /\ DuiFrame

\* lines 522-529
IsKurl ==
  /\ pc = "isKurl"
  /\ IF kurl = "error" THEN DuiReturn("failed to check kURL")
     ELSE IF kurl = "false" THEN DuiReturn("nil")
     ELSE pc' = "getAppIDsFromRegistry" /\ UNCHANGED << appIdx, duiResult >>
  /\ DuiFrame

\* lines 534-537
GetAppIDsFromRegistry ==
  /\ pc = "getAppIDsFromRegistry"
  /\ IF failingLookup = "GetAppIDsFromRegistry"
     THEN DuiReturn("failed to get apps with registry")
     ELSE pc' = "app" /\ UNCHANGED << appIdx, duiResult >>
  /\ DuiFrame

\* lines 540-571: one application of the registry
CheckRegistryApp ==
  /\ pc = "app"
  /\ appIdx <= Len(registryApps)
  /\ \E nilApp \in BOOLEAN :
       LET checked == CheckApp(registryApps[appIdx], ignoreRollback, nilApp)
       IN IF checked = "next"
          THEN /\ appIdx' = appIdx + 1
               /\ UNCHANGED << pc, duiResult >>
          ELSE DuiReturn(checked)
  /\ DuiFrame

\* lines 579-614: the used images of the active versions, and the call of
\* deleteUnusedImages
CallDeleteUnusedImages ==
  /\ pc = "app"
  /\ appIdx > Len(registryApps)
  /\ pc' = "deleteUnusedImages"
  /\ procs' = {1}
  /\ usedImages' \in UsedImageLists
  /\ ipc' = [p \in {1} |-> "start"]
  /\ currentStatus' = [p \in {1} |-> ""]
  /\ digestsInRegistry' = [p \in {1} |-> {}]
  /\ resolvedDigests' = [p \in {1} |-> {}]
  /\ deletedDigests' = [p \in {1} |-> {}]
  /\ finalError' = [p \in {1} |-> "nil"]
  /\ monitor' = [p \in {1} |-> "none"]
  /\ monitorError' = [p \in {1} |-> "nil"]
  /\ UNCHANGED << hostname, taskStatus, timestampUpdates, registryDigests >>
  /\ UNCHANGED << orderVars, pvcVars, duiVars, pushVars, groupVars >>

\* lines 614-619: deleteUnusedImages has returned
ReturnFromDeleteUnusedImages ==
  /\ pc = "deleteUnusedImages"
  /\ procs = {1}
  /\ ipc[1] = "returned"
  /\ duiResult = "none"
  /\ pc' = "duiReturned"
  /\ duiResult' = IF finalError[1] = "nil" THEN "nil"
                  ELSE "failed to delete unused images"
  /\ UNCHANGED appIdx
  /\ DuiFrame

NextDUI ==
  \/ GetInstallationParams
  \/ GetRegistryDetailsForApp
  \/ IsKurl
  \/ GetAppIDsFromRegistry
  \/ CheckRegistryApp
  \/ CallDeleteUnusedImages
  \/ ReturnFromDeleteUnusedImages
  \/ NextImages

SpecDUI == InitDUI /\ [][NextDUI]_vars

\* ------------------------------------------------------------- pushImage
\* var retryAttempts int = 5
RetryAttempts == 5

\* the errors CopyImage can return
CopyErrors == {"timeout", "denied"}

\* a record written to opts.ReportWriter
ReportRecord(tag, text) == [tag |-> tag, text |-> text]

\* Where the loop of lines 539-547 goes after an attempt: attempts is the
\* number of CopyImage calls made so far.
\* variant: a successful attempt does not leave the loop
AfterCopy_NoBreak(err, attempts) ==
  IF attempts < RetryAttempts THEN "copyImage" ELSE "pushImageEnd"

AfterCopy(err, attempts) ==
  IF err = "nil" THEN "pushImageEnd"
  ELSE IF attempts < RetryAttempts THEN "copyImage"
  ELSE "pushImageEnd"

InitPush ==
  /\ pc = "pushImage"
  /\ OrderIdle
  /\ PvcIdle /\ ImagesIdle /\ DuiIdle /\ GroupIdle
  /\ logForUI \in BOOLEAN
  /\ copyCalls = <<>>
  /\ copyError = "nil"
  /\ reportWriter = <<>>
  /\ pushResult = "none"

PushFrame ==
  /\ UNCHANGED << orderVars, pvcVars, imageVars, duiVars, groupVars >>
  /\ UNCHANGED logForUI

\* lines 527-534: the first record
PushImageBegin ==
  /\ pc = "pushImage"
  /\ reportWriter' = IF logForUI
                     THEN Append(reportWriter, ReportRecord("file.begin", "image"))
                     ELSE Append(reportWriter, ReportRecord("progress", "Pushing image"))
  /\ pc' = "copyImage"
  /\ UNCHANGED << copyCalls, copyError, pushResult >>
  /\ PushFrame

\* lines 539-547: one attempt, and the 10 s sleep after a failed one
CopyImage ==
  /\ pc = "copyImage"
  /\ \E err \in CopyErrors \cup {"nil"} :
       /\ copyCalls' = Append(copyCalls, err)
       /\ copyError' = err
       /\ pc' = AfterCopy(err, Len(copyCalls) + 1)
  /\ UNCHANGED << reportWriter, pushResult >>
  /\ PushFrame

\* lines 548-562: the last record and the return
PushImageEnd ==
  /\ pc = "pushImageEnd"
  /\ IF copyError # "nil"
     THEN /\ reportWriter' = IF logForUI
                             THEN Append(reportWriter, ReportRecord("file.error", copyError))
                             ELSE reportWriter
          /\ pushResult' = "failed to push image"
     ELSE /\ reportWriter' = IF logForUI
                             THEN Append(reportWriter, ReportRecord("file.end", "image"))
                             ELSE reportWriter
          /\ pushResult' = "nil"
  /\ pc' = "pushReturned"
  /\ UNCHANGED << copyCalls, copyError >>
  /\ PushFrame

NextPush == PushImageBegin \/ CopyImage \/ PushImageEnd

SpecPush == InitPush /\ [][NextPush]_vars

\* ------------------------------------- GroupByDeletionWeight, GroupByCreationWeight
\* most resources of the receiver
MaxResources == 3

DeletionWeightKey == "kots.io/deletion-weight"
CreationWeightKey == "kots.io/creation-weight"

\* A resource as the grouping reads it: whether Unstructured is set, and what
\* GetAnnotations returns (Nil for a nil map).
WeighedResource(unstructured, annotations) == [unstructured |-> unstructured, annotations |-> annotations]

WeighedResources ==
  { WeighedResource(FALSE, Nil),
    WeighedResource(TRUE, Nil),
    WeighedResource(TRUE, Some([k \in {"app"} |-> "x"])),
    WeighedResource(TRUE, Some([k \in {DeletionWeightKey} |-> "1"])),
    WeighedResource(TRUE, Some([k \in {CreationWeightKey} |-> "2"])) }

ResourceLists == SeqsUpTo(WeighedResources, MaxResources)

\* annotations[key]: reading a key the map does not hold gives ""
AnnotationValue(annotations, key) ==
  IF key \in DOMAIN annotations THEN annotations[key] ELSE ""

\* the weight of lines 54-60 and 69-75
WeightOf(resource, key) ==
  IF resource.unstructured /\ resource.annotations # Nil
  THEN AnnotationValue(resource.annotations[1], key)
  ELSE "0"

\* the loop of lines 53-62 and 68-77 from resource i on
RECURSIVE GroupByWeightFrom(_, _, _, _)
GroupByWeightFrom(r, i, key, grouped) ==
  IF i > Len(r) THEN grouped
  ELSE LET weight == WeightOf(r[i], key)
           group == IF weight \in DOMAIN grouped THEN grouped[weight] ELSE <<>>
       IN GroupByWeightFrom(r, i + 1, key,
            [w \in DOMAIN grouped \cup {weight} |->
               IF w = weight THEN Append(group, r[i]) ELSE grouped[w]])

GroupByDeletionWeight(r) == GroupByWeightFrom(r, 1, DeletionWeightKey, <<>>)
GroupByCreationWeight(r) == GroupByWeightFrom(r, 1, CreationWeightKey, <<>>)

InitGroup ==
  /\ pc = "groupByDeletionWeight"
  /\ OrderIdle
  /\ PvcIdle /\ ImagesIdle /\ DuiIdle /\ PushIdle
  /\ groupInput \in ResourceLists
  /\ byDeletionWeight = <<>>
  /\ byCreationWeight = <<>>

GroupFrame ==
  /\ UNCHANGED << orderVars, pvcVars, imageVars, duiVars, pushVars >>
  /\ UNCHANGED groupInput

CallGroupByDeletionWeight ==
  /\ pc = "groupByDeletionWeight"
  /\ byDeletionWeight' = GroupByDeletionWeight(groupInput)
  /\ pc' = "groupByCreationWeight"
  /\ UNCHANGED byCreationWeight
  /\ GroupFrame

CallGroupByCreationWeight ==
  /\ pc = "groupByCreationWeight"
  /\ byCreationWeight' = GroupByCreationWeight(groupInput)
  /\ pc' = "grouped"
  /\ UNCHANGED byDeletionWeight
  /\ GroupFrame

NextGroup == CallGroupByDeletionWeight \/ CallGroupByCreationWeight

SpecGroup == InitGroup /\ [][NextGroup]_vars

\* ------------------------------------------------- vocabulary of the claims
\* buildDeleteKindOrderedResources has returned
Ordered == pc \in {"deleteManifestResource", "done"}
\* ... and no Remove has been issued yet
JustOrdered == pc = "deleteManifestResource" /\ removeLog = <<>>

PreKinds == Range(kindDeleteOrder.PreOrder)
PostKinds == Range(kindDeleteOrder.PostOrder)
Table == PreKinds \cup PostKinds

KindOfResource(r) == Deref(r.GVK).Kind
InCrdIndex(r) ==
  buildGVKKey(Deref(r.GVK).Group, Deref(r.GVK).Kind, Deref(r.GVK).Version) \in crdGVKMap

\* the keys of the buckets that hold the resource decoded from manifest i
BucketsOf(i) ==
  {k \in DOMAIN deleteOrderResourceMap :
     \E j \in 1..Len(deleteOrderResourceMap[k]) :
        deleteOrderResourceMap[k][j].Index = i}

\* the positions of kind k in the ordered kind sequence
PositionsOf(k) == {x \in 1..Len(deleteOrderedKinds) : deleteOrderedKinds[x] = k}

\* the positions in removeLog of the Remove calls for the manifest i
RemovesOf(i) == {x \in 1..Len(removeLog) : removeLog[x].Index = i}

Bijections(n) == {f \in [1..n -> 1..n] : \A a, b \in 1..n : f[a] = f[b] => a = b}

\* s lists the elements of D once each, in ascending byte-wise order
IsSortedListOf(s, D) ==
  /\ Range(s) = D
  /\ \A a, b \in 1..Len(s) : a < b => StringLess(s[a], s[b])

\* the part of the ordered kind sequence between PreOrder and PostOrder
DefaultSegment ==
  SubSeq(deleteOrderedKinds, Len(kindDeleteOrder.PreOrder) + 1,
         Len(deleteOrderedKinds) - Len(kindDeleteOrder.PostOrder))

\* ------------------------------------------------------------------ C1
\* C1 (as claimed): for a fixed KindOrder and CRD index, every permutation of
\* the batch yields the same ordered kind sequence.
C1_SameKindsForPermutations ==
  JustOrdered =>
    \A f \in Bijections(Len(resources)) :
       buildDeleteKindOrderedResources(
           kindDeleteOrder, [i \in 1..Len(resources) |-> resources[f[i]]],
           TargetNS, crdGVKMap, waitFlag).kinds = deleteOrderedKinds

\* ------------------------------------------------------------------ C2
\* C2 (as claimed): the ordered kind sequence is PreOrder, then the kinds seen
\* in the batch that have no entry in the table, sorted, then PostOrder.
C2_Original ==
  JustOrdered =>
    /\ Len(deleteOrderedKinds) >=
         Len(kindDeleteOrder.PreOrder) + Len(kindDeleteOrder.PostOrder)
    /\ SubSeq(deleteOrderedKinds, 1, Len(kindDeleteOrder.PreOrder))
         = kindDeleteOrder.PreOrder
    /\ SubSeq(deleteOrderedKinds,
              Len(deleteOrderedKinds) - Len(kindDeleteOrder.PostOrder) + 1,
              Len(deleteOrderedKinds)) = kindDeleteOrder.PostOrder
    /\ IsSortedListOf(DefaultSegment,
                      {KindOfResource(resources[i]) : i \in 1..Len(resources)} \ Table)

\* the keys, absent from the table, of the buckets whose first resource is not
\* in the CRD index
PlainBucketKinds ==
  {k \in (DOMAIN deleteOrderResourceMap) \ Table :
     /\ deleteOrderResourceMap[k] # <<>>
     /\ ~InCrdIndex(Head(deleteOrderResourceMap[k]))}

\* C2 (amended): the ordered kind sequence is PreOrder, then the keys outside
\* the table of the buckets created by a resource that is not in the CRD
\* index, each once in ascending order, then PostOrder; the kind of a
\* resource that is in the CRD index is not added to the sequence.
C2_OrderedKinds ==
  JustOrdered =>
    /\ Len(deleteOrderedKinds) >=
         Len(kindDeleteOrder.PreOrder) + Len(kindDeleteOrder.PostOrder)
    /\ SubSeq(deleteOrderedKinds, 1, Len(kindDeleteOrder.PreOrder))
         = kindDeleteOrder.PreOrder
    /\ SubSeq(deleteOrderedKinds,
              Len(deleteOrderedKinds) - Len(kindDeleteOrder.PostOrder) + 1,
              Len(deleteOrderedKinds)) = kindDeleteOrder.PostOrder
    /\ IsSortedListOf(DefaultSegment, PlainBucketKinds)

\* C2 witness: a batch with a resource of the CRD index and two kinds in the
\* default segment has been ordered
C2_Witness ==
  /\ Ordered
  /\ Len(DefaultSegment) >= 2
  /\ \E i \in 1..Len(resources) :
       InCrdIndex(resources[i]) /\ KindOfResource(resources[i]) \notin Table

\* ------------------------------------------------------------------ C3
\* C3: in the ordered kind sequence every occurrence of a PreOrder kind comes
\* before every occurrence of a PostOrder kind, and every kind of the default
\* segment (a kind outside the table) lies between them.
C3_PreBeforeDefaultBeforePost ==
  JustOrdered =>
    LET pre == {x \in 1..Len(deleteOrderedKinds) : deleteOrderedKinds[x] \in PreKinds}
        post == {x \in 1..Len(deleteOrderedKinds) : deleteOrderedKinds[x] \in PostKinds}
        default == {x \in 1..Len(deleteOrderedKinds) : deleteOrderedKinds[x] \notin Table}
    IN /\ \A x \in pre, y \in post : x < y
       /\ \A x \in pre, y \in default : x < y
       /\ \A x \in default, y \in post : x < y

\* C3 witness: an ordered sequence that holds kinds of all three segments
C3_Witness ==
  /\ Ordered
  /\ \E x, y, z \in 1..Len(deleteOrderedKinds) :
       /\ deleteOrderedKinds[x] \in PreKinds
       /\ deleteOrderedKinds[y] \notin Table
       /\ deleteOrderedKinds[z] \in PostKinds

\* ------------------------------------------------------------------ C4
\* C4 (as claimed): a resource whose key is in the CRD index is in the bucket
\* of its literal kind when the table lists that kind, and in the bucket
\* "CustomResource" otherwise, whatever precedes it in the batch.
C4_CrdInstanceBucket ==
  Ordered =>
    \A i \in 1..Len(resources) :
       InCrdIndex(resources[i]) =>
         BucketsOf(i) = {IF KindOfResource(resources[i]) \in Table
                         THEN KindOfResource(resources[i]) ELSE "CustomResource"}

\* ------------------------------------------------------------------ C5
\* C5: every Remove call for a PersistentVolumeClaim is issued with wait=false,
\* whatever the caller's waitFlag.
C5_PvcNeverWaits ==
  \A x \in 1..Len(removeLog) :
     manifests[removeLog[x].Index].kind = "PersistentVolumeClaim"
       => removeLog[x].wait = FALSE

\* C5 witness: with waitFlag true, a PersistentVolumeClaim has been removed
\* and so has a resource of another kind, that one with wait=true
C5_Witness ==
  /\ waitFlag
  /\ \E x, y \in 1..Len(removeLog) :
       /\ manifests[removeLog[x].Index].kind = "PersistentVolumeClaim"
       /\ removeLog[y].wait

\* ------------------------------------------------------------------ C6
\* C6 (as claimed): with a manifest that failed to decode in the batch,
\* buildCrdGVKMap and buildDeleteKindOrderedResources complete normally and
\* the resource is in exactly one bucket, the one keyed by the empty string.
C6_UndecodableKept ==
  \A i \in 1..Len(manifests) :
     manifests[i].dec # "ok" =>
       /\ pc # "panic"
       /\ Ordered => BucketsOf(i) = {""}

C8_EveryResourceRemoved ==
  (kindDeleteOrder = defaultKindDeleteOrder /\ pc \in {"done", "panic"}) =>
    \A i \in 1..Len(manifests) : Cardinality(RemovesOf(i)) = 1

\* ------------------------------------------------------------------ C9
\* the resources (by input position) of the buckets of the kinds x..Len of
\* the ordered kind sequence, bucket after bucket
RECURSIVE KindOrderedIndexes(_)
KindOrderedIndexes(x) ==
  IF x > Len(deleteOrderedKinds) THEN <<>>
  ELSE LET bucket == MapGet(deleteOrderResourceMap, deleteOrderedKinds[x])
       IN [j \in 1..Len(bucket) |-> bucket[j].Index] \o KindOrderedIndexes(x + 1)

\* C9: Remove calls are issued one at a time in the computed kind order: the
\* resources of the bucket of an earlier kind of the ordered kind sequence
\* are removed before those of a later kind, the resources of one bucket in
\* their input order, and all of them by the time the call returns.
C9_RemoveFollowsKindOrder ==
  Ordered =>
    /\ \A k \in DOMAIN deleteOrderResourceMap :
         \A j \in 2..Len(deleteOrderResourceMap[k]) :
            deleteOrderResourceMap[k][j - 1].Index < deleteOrderResourceMap[k][j].Index
    /\ LET expected == KindOrderedIndexes(1)
       IN /\ Len(removeLog) <= Len(expected)
          /\ \A x \in 1..Len(removeLog) : removeLog[x].Index = expected[x]
          /\ pc = "done" => Len(removeLog) = Len(expected)

\* C9 witness: the call has returned after removing two resources of one
\* bucket and a resource of a later bucket
C9_Witness ==
  /\ pc = "done"
  /\ \E a, b, c \in 1..Len(resources) :
       /\ a < b
       /\ BucketsOf(a) = BucketsOf(b)
       /\ BucketsOf(a) # BucketsOf(c)
       /\ RemovesOf(a) # {} /\ RemovesOf(b) # {} /\ RemovesOf(c) # {}

\* C10: clearNamespaces returns nil only if, for each namespace in
\* namespacesToClear, the last list pass of that namespace found no object
\* owned by the application that is not already pending deletion.
C10_NilOnlyAfterEmptyListPass ==
  (pc = "returned" /\ result = "nil")
    => \A n \in 1..Len(namespacesToClear) : lastFound[n] = {}

\* --------------------------------------------- vocabulary of clearNamespaces
Returned == pc = "returned"

\* the objects of the application in a namespace, and those of them that are
\* live with no deletion timestamp
OwnedIn(namespace) ==
  {n \in ObjectNames :
     ObjectNamed(n).namespace = namespace /\ ObjectNamed(n).slug = AppSlug}

\* every Delete call of the current pass succeeded
NoDeleteFailed == \A x \in 1..Len(deleteCalls) : ~deleteCalls[x].err

\* ----------------------------------------------------------------- C11
\* C11 (as claimed): when the namespace holds 3 owned objects, the Delete
\* calls of the first pass all succeed and the objects are then gone,
\* clearNamespaces returns nil after exactly 2 list passes of the namespace,
\* the second finding nothing, and one grace sleep.
C11_TwoListPasses ==
  ( /\ Returned
    /\ namespacesToClear = << "ns3" >>
    /\ retrySleeps = 0
    /\ Len(deleteCalls) = 3 /\ NoDeleteFailed
    /\ \A n \in OwnedIn("ns3") : objects[n] = "absent" )
    => (result = "nil" /\ listPasses = 2 /\ lastFound[1] = {} /\ graceSleeps = 1)

\* ----------------------------------------------------------------- C12
\* C12 (as claimed), for the runs in which the only namespace took a single
\* iteration: if an object found by the list pass is still live when
\* clearNamespaces returns, so that it was present and not pending deletion
\* through every iteration, the call does not return nil.
C12_ErrorWhenObjectStays ==
  ( /\ Returned
    /\ Len(namespacesToClear) = 1
    /\ listPasses = 1
    /\ \E n \in lastFound[1] : objects[n] = "live" )
    => result = "error"

\* ----------------------------------------------------------------- C13
\* C13 (as claimed): a call that returns the budget-exhausted error has made
\* at most 60 list passes of the namespace.
C13_AtMostSixtyIterations ==
  (Returned /\ result = "error") => listPasses <= RetryBudget

\* ----------------------------------------------------------------- C14
\* the resources of the current pass that Delete has not been called for
ResourcesLeft ==
  {kj \in (kindIdx..Len(deleteOrderedKinds)) \X (1..Len(ClusterObjects)) :
     /\ kj[2] <= Len(MapGet(resourcesToDelete, deleteOrderedKinds[kj[1]]))
     /\ (kj[1] > kindIdx \/ kj[2] >= resIdx)}

\* what is left of the current iteration: the list pass, then the Delete
\* calls, then the sleep
IterationLeft ==
  CASE pc = "list" -> 2 + Len(ClusterObjects)
    [] pc = "delete" -> 1 + Cardinality(ResourcesLeft)
    [] pc = "sleep" -> 1

\* what is left of the call: the namespaces not reached, the iterations of
\* the current namespace, the rest of the current iteration
WorkLeft ==
  LET perNamespace == (RetryBudget + 1) * (3 + Len(ClusterObjects))
  IN CASE pc = "returned" -> 0
       [] pc = "grace" -> 1
       [] pc = "clearNamespaces" -> 2 + (Len(namespacesToClear) + 1) * perNamespace
       [] OTHER -> 2 + (Len(namespacesToClear) - nsIdx) * perNamespace
                     + retry * (3 + Len(ClusterObjects)) + IterationLeft

\* the guard of one of the steps of clearNamespaces holds
CanStep ==
  \/ pc \in {"clearNamespaces", "grace"}
  \/ pc \in {"list", "sleep"} /\ nsIdx \in 1..Len(namespacesToClear)
  \/ pc = "delete" /\ kindIdx > Len(deleteOrderedKinds)
  \/ /\ pc = "delete"
     /\ kindIdx \in 1..Len(deleteOrderedKinds)
     /\ resIdx \in 1..Len(MapGet(resourcesToDelete, deleteOrderedKinds[kindIdx]))

\* C14: clearNamespaces terminates whatever the cluster does: until it has
\* returned nil or the budget-exhausted error it can always take a step,
\* every step reduces the work that is left, which is never negative, and no
\* namespace takes more than RetryBudget + 1 list passes.
C14_Terminates ==
  /\ [][WorkLeft' < WorkLeft]_vars
  /\ [](WorkLeft >= 0 /\ listPasses <= RetryBudget + 1)
  /\ [](IF Returned THEN result \in {"nil", "error"} ELSE CanStep)

\* C14 witness: the call has returned after a namespace used its whole
\* budget with objects recreated meanwhile
C14_Witness ==
  /\ Returned
  /\ result = "error"
  /\ retrySleeps = RetryBudget
  /\ \E n \in Dynamic : objects[n] = "live"

\* ----------------------------------------------------------------- C15
\* C15 (as claimed): when the last list pass could not convert the restore
\* label selector, clearNamespaces has returned a non-nil error at once,
\* without the grace sleep.
C15_SelectorErrorReturned ==
  (Returned /\ listLog.err) => (result = "error" /\ graceSleeps = 0)

\* ----------------------------------------------------------------- C16
\* the objects of the application in the namespace being cleared that are
\* live, of the resource types the last pass listed without failure
FoundByWorkingLists ==
  {n \in OwnedIn(namespacesToClear[nsIdx]) :
     /\ objects[n] = "live"
     /\ ObjectNamed(n).gvr \in listLog.listed \ listLog.failed}

\* C16 (as claimed): when the List call of a resource type failed in a pass,
\* the pass has listed every resource type (so a type that failed in the
\* pass before is listed again), it has found the owned objects of the other
\* types and goes on to delete them without returning an error, and when
\* its Delete calls are over without failure every object found has been
\* passed to Delete.
C16_ListFailureTolerated ==
  (pc = "delete" /\ listLog.failed # {}) =>
    /\ listLog.listed = deletionGVRs
    /\ result = "none"
    /\ deleteCalls = <<>> => lastFound[nsIdx] = FoundByWorkingLists
    /\ (kindIdx > Len(deleteOrderedKinds) /\ NoDeleteFailed) =>
         \A n \in lastFound[nsIdx] :
            \E x \in 1..Len(deleteCalls) :
               deleteCalls[x].name = n /\ deleteCalls[x].GVR = ObjectNamed(n).gvr

\* ----------------------------------------------------------------- C17
\* C17 (as claimed): no Delete call is made for an owned object that has a
\* deletion timestamp, and a pass that finds no owned object without one
\* makes no Delete call and leaves the loop of the namespace.
C17_PendingNeverDeleted ==
  /\ \A x \in 1..Len(deleteCalls) :
       ObjectNamed(deleteCalls[x].name).slug = AppSlug
         => deleteCalls[x].was # "terminating"
  /\ (pc = "delete" /\ lastFound[nsIdx] = {}) =>
       (deleteCalls = <<>> /\ kindIdx > Len(deleteOrderedKinds))

\* ----------------------------------------------------------------- C18
\* C18 (as claimed): no Delete call is made for a live object whose
\* kots.io/app-slug annotation is not the appSlug argument.
C18_OnlyOwnedDeleted ==
  \A x \in 1..Len(deleteCalls) :
     deleteCalls[x].was = "live" => ObjectNamed(deleteCalls[x].name).slug = AppSlug

\* ----------------------------------------------------------------- C19
\* C19 (as claimed), for isRestore set: no Delete call is made for an owned
\* object labelled velero.io/exclude-from-backup=true, nor, when a label
\* selector is given, for an owned object whose labels do not match it.
C19_RestoreFilters ==
  isRestore =>
    \A x \in 1..Len(deleteCalls) :
       LET o == ObjectNamed(deleteCalls[x].name)
       IN (o.slug = AppSlug /\ deleteCalls[x].was # "absent") =>
            /\ ~o.exclude
            /\ restoreLabelSelector = "valid" => o.matches

\* ----------------------------------------------------------------- C20
\* the resource types of the cluster that are in the fixed skip list
SkippedTypes ==
  {gvr \in ClusterGVRs :
     << gvr.Group, gvr.Version, gvr.Resource >> \in
        { << "", "v1", "bindings" >>, << "", "v1", "events" >>,
          << "extensions", "v1beta1", "replicationcontrollers" >>,
          << "apps", "v1", "controllerrevisions" >>,
          << "authentication.k8s.io", "v1", "tokenreviews" >>,
          << "authorization.k8s.io", "v1", "localsubjectaccessreviews" >>,
          << "authorization.k8s.io", "v1", "subjectaccessreviews" >>,
          << "authorization.k8s.io", "v1", "selfsubjectaccessreviews" >>,
          << "authorization.k8s.io", "v1", "selfsubjectrulesreviews" >> }}

\* C20: clearNamespaces calls List for no resource type of the skip list and
\* Delete for no object of such a type, and the objects of these types stay
\* as they were.
C20_SkipListNeverTouched ==
  /\ listLog.listed \cap SkippedTypes = {}
  /\ \A x \in 1..Len(deleteCalls) :
       /\ deleteCalls[x].GVR \notin SkippedTypes
       /\ ObjectNamed(deleteCalls[x].name).gvr \notin SkippedTypes
  /\ \A n \in ObjectNames :
       ObjectNamed(n).gvr \in SkippedTypes => objects[n] = "live"

\* C20 witness: a pass over a namespace that holds an owned object of a
\* skipped type has listed the other types and made a Delete call
C20_Witness ==
  /\ namespacesToClear # <<>>
  /\ \E n \in OwnedIn(namespacesToClear[nsIdx]) : ObjectNamed(n).gvr \in SkippedTypes
  /\ listLog.listed = ClusterGVRs \ SkippedTypes
  /\ deleteCalls # <<>>

C22_FourKindSequence ==
  (Ordered /\ kindDeleteOrder = customFirstKindOrder
     /\ Range(manifests) = FourKinds /\ crdGVKMap = {"g/Foo/v1"})
    => /\ deleteOrderedKinds = << "CustomResource", "Service", "UnknownKind", "Pod" >>
       /\ \A i \in 1..Len(manifests) :
            manifests[i] = mFooG => BucketsOf(i) = {"CustomResource"}

\* the call has returned for a batch that starts with the Pod and ends with
\* the Service
C22_Witness ==
  /\ JustOrdered
  /\ kindDeleteOrder = customFirstKindOrder
  /\ manifests = << mPod, mUnknownKind, mFooG, mService >>
  /\ crdGVKMap = {"g/Foo/v1"}

\* ----------------------------------------------------------------- C23
\* the batch holds a CustomResourceDefinition that does not convert
UnconvertibleCrd(m) ==
  m.dec = "ok" /\ m.kind = "CustomResourceDefinition" /\ ~m.crdOK
ConvertibleCrd(m) ==
  m.dec = "ok" /\ m.kind = "CustomResourceDefinition" /\ m.crdOK
\* the keys group/kind/version a definition declares
DeclaredKeys(m) ==
  {m.crdGroup \o "/" \o m.crdKind \o "/" \o m.crdVersions[j] :
     j \in 1..Len(m.crdVersions)}
\* manifest m declares an instance of a kind of the definition c
InstanceOf(m, c) ==
  m.dec = "ok" /\ (m.group \o "/" \o m.kind \o "/" \o m.version) \in DeclaredKeys(c)
\* buildCrdGVKMap has returned
Indexed == pc \in {"buildDeleteKindOrderedResources", "deleteManifestResource", "done"}

\* C23: when a CustomResourceDefinition of the batch does not convert to the
\* typed definition, buildCrdGVKMap returns an index that holds every key of
\* every other (convertible) definition of the batch and none for the
\* unconvertible one; and when deleteManifestResources returns, the
\* unconvertible object and the instances of its kind are each in the bucket
\* of their literal kind name only, and one Remove was issued for each.
C23_UnconvertibleCrdSkipped ==
  \A c \in 1..Len(manifests) :
    UnconvertibleCrd(manifests[c]) =>
      /\ Indexed =>
           /\ \A d \in 1..Len(manifests) :
                ConvertibleCrd(manifests[d]) => DeclaredKeys(manifests[d]) \subseteq crdGVKMap
           /\ DeclaredKeys(manifests[c]) \cap crdGVKMap = {}
      /\ pc = "done" =>
           \A i \in 1..Len(manifests) :
             (i = c \/ InstanceOf(manifests[i], manifests[c])) =>
               /\ BucketsOf(i) = {manifests[i].kind}
               /\ Cardinality(RemovesOf(i)) = 1

\* a batch with an unconvertible definition, an instance of its kind and a
\* convertible definition after them has been deleted
C23_Witness ==
  /\ pc = "done"
  /\ manifests = << mCrdBroken, mFooH, mCrdFoo >>
  /\ "g/Foo/v2" \in crdGVKMap
  /\ Len(removeLog) = 3

\* ----------------------------------------------------------------- C24
\* C24: every Remove call for a decodable resource is made with the namespace
\* its manifest declares when that is non-empty, and with the target namespace
\* when the manifest declares none.
C24_RemoveNamespace ==
  \A x \in 1..Len(removeLog) :
    LET m == manifests[removeLog[x].Index]
    IN m.dec = "ok" =>
         removeLog[x].namespace = (IF m.namespace # "" THEN m.namespace ELSE TargetNS)

\* Remove was called for a resource that declares a namespace and for one
\* that declares none
C24_Witness ==
  /\ pc = "done"
  /\ \E x, y \in 1..Len(removeLog) :
       /\ manifests[removeLog[x].Index].namespace = "other"
       /\ removeLog[x].namespace = "other"
       /\ manifests[removeLog[y].Index].namespace = ""
       /\ removeLog[y].namespace = TargetNS

KindClass(k) == IF k \in PreKinds THEN 1 ELSE IF k \in PostKinds THEN 3 ELSE 2

\* C26 (as claimed): within one delete pass, when Delete is called for an
\* object the list pass found, every owned object the pass found of an earlier
\* class (PreOrder before the kinds outside the table before PostOrder) has
\* already been passed to Delete.
C26_OwnedObjectsInKindOrder ==
  (pc \in {"delete", "sleep"} /\ namespacesToClear # <<>>) =>
    \A y \in 1..Len(deleteCalls) : \A n \in lastFound[nsIdx] :
      KindClass(ObjectNamed(n).kind) < KindClass(ObjectNamed(deleteCalls[y].found).kind)
        => \E x \in 1..(y - 1) : deleteCalls[x].name = n

\* ... with a loop variable per iteration
C26_PerIteration == loopVarPerIteration => C26_OwnedObjectsInKindOrder

\* the Delete calls themselves are issued in the order of the kind sequence,
\* for the object found by the list pass as for the object whose name is
\* passed to Delete
C26_DeletesFollowKindClasses ==
  \A x, y \in 1..Len(deleteCalls) :
    x < y =>
      /\ KindClass(ObjectNamed(deleteCalls[x].found).kind)
           <= KindClass(ObjectNamed(deleteCalls[y].found).kind)
      /\ KindClass(ObjectNamed(deleteCalls[x].name).kind)
           <= KindClass(ObjectNamed(deleteCalls[y].name).kind)

\* ----------------------------------------------------------------- C27
\* the objects of the application present in the current namespace
OwnedPresent ==
  {n \in OwnedIn(namespacesToClear[nsIdx]) : objects[n] # "absent"}

\* C27: when the namespace being cleared holds no object of the application,
\* its first list pass finds nothing and leaves nothing to delete, and the
\* step after it leaves the loop of the namespace by break (it is reported
\* cleared): exactly one list pass, no Delete call, no 2 s sleep, and the
\* cluster is not touched.
C27_EmptyNamespaceOnePass ==
  /\ [][( pc = "list" /\ retry = RetryBudget /\ OwnedPresent = {})
          => /\ pc' = "delete"
             /\ lastFound'[nsIdx] = {}
             /\ kindIdx' > Len(deleteOrderedKinds')
             /\ listPasses' = 1 /\ deleteCalls' = <<>> /\ retrySleeps' = 0
             /\ objects' = objects]_vars
  /\ [][( pc = "delete" /\ retry = RetryBudget /\ lastFound[nsIdx] = {}
           /\ OwnedPresent = {})
          => /\ listPasses' = 1 /\ deleteCalls' = <<>> /\ retrySleeps' = 0
             /\ objects' = objects
             /\ IF nsIdx < Len(namespacesToClear)
                THEN pc' = "list" /\ nsIdx' = nsIdx + 1 /\ retry' = RetryBudget
                ELSE pc' = "grace"]_vars

\* the list pass of ns0, which holds only an object of another application,
\* has been made
C27_Witness ==
  /\ pc = "delete"
  /\ namespacesToClear[nsIdx] = "ns0"
  /\ OwnedPresent = {}
  /\ objects["pod-zed"] = "live"
  /\ listPasses = 1

\* ----------------------------------------------------------------- C28
\* C28: the map returned by buildCrdGVKMap has the key group/kind/version for
\* exactly the triples (spec group, spec kind, version name) of the declared
\* versions of the convertible CustomResourceDefinitions of the batch.
C28_IndexKeys ==
  Indexed =>
    crdGVKMap = UNION {DeclaredKeys(manifests[d]) :
                         d \in {x \in 1..Len(manifests) : ConvertibleCrd(manifests[x])}}

\* the index of a batch with a definition of two versions, a definition
\* that does not convert and an instance
C28_Witness ==
  /\ pc = "buildDeleteKindOrderedResources"
  /\ Range(manifests) = {mCrdFoo, mCrdBroken, mFooG}
  /\ crdGVKMap = {"g/Foo/v1", "g/Foo/v2"}

\* ----------------------------------------------------------------- C29
\* every manifest of the batch decodes
AllDecodable == \A i \in 1..Len(manifests) : manifests[i].dec = "ok"

\* C29 (as claimed): for a table with disjoint PreOrder and PostOrder, listing
\* "CustomResource" or not, and a batch of decodable resources, every
\* resource is in exactly one bucket, the key of that bucket occurs exactly
\* once in the ordered kind sequence, and deleteManifestResources has issued
\* exactly one Remove for the resource when it returns.
C29_OneRemovePerResource ==
  (AllDecodable /\ PreKinds \cap PostKinds = {}) =>
    /\ Ordered =>
         \A i \in 1..Len(manifests) :
           /\ Cardinality(BucketsOf(i)) = 1
           /\ \A k \in BucketsOf(i) : Cardinality(PositionsOf(k)) = 1
    /\ pc = "done" =>
         \A i \in 1..Len(manifests) : Cardinality(RemovesOf(i)) = 1

\* ... for a table that lists "CustomResource"
C29_WithCustomResourceListed ==
  "CustomResource" \in Table => C29_OneRemovePerResource

\* ----------------------------------------------------------------- C30
\* C30: in a delete pass of clearNamespaces a Delete call for an object that
\* is gone fails (not found), and the first Delete call that fails is the
\* last call of the pass; the pass then counts as failed: the 2 s sleep and a
\* further iteration follow while the counter is above 0, and the error is
\* returned when it is 0.
C30_FirstDeleteErrorEndsPass ==
  /\ \A x \in 1..Len(deleteCalls) :
       /\ deleteCalls[x].was = "absent" => deleteCalls[x].err
       /\ deleteCalls[x].err => x = Len(deleteCalls)
  /\ pc = "delete" => NoDeleteFailed
  /\ ~NoDeleteFailed =>
       \/ pc = "sleep" /\ retry > 0
       \/ pc = "list" /\ retry < RetryBudget /\ retrySleeps >= 1
       \/ Returned /\ result = "error" /\ retry = 0
  /\ pc = "sleep" => ~NoDeleteFailed

\* the second Delete call of a pass failed with not-found while a resource
\* of the pass was still to be deleted
C30_Witness ==
  /\ pc = "sleep"
  /\ Len(deleteCalls) = 2
  /\ deleteCalls[2].was = "absent" /\ deleteCalls[2].err
  /\ Cardinality(lastFound[nsIdx]) = 3
  /\ kindIdx <= Len(deleteOrderedKinds)

\* ----------------------------------------------------------------- C31
\* the objects of the namespaces that come after the current one in the list
LaterObjects ==
  {n \in ObjectNames :
     \E k \in (nsIdx + 1)..Len(namespacesToClear) :
        ObjectNamed(n).namespace = namespacesToClear[k]}

\* C31: clearNamespaces works on the namespaces in list order, one at a time:
\* the current namespace changes only to the next one of the list, no step
\* touches an object of a later namespace, and the pass fails with the
\* counter at 0 only to return the error at once; when the error is returned,
\* nothing was listed or deleted in the namespaces after the failing one.
C31_ErrorStopsAtNamespace ==
  /\ [][/\ nsIdx' \in {nsIdx, nsIdx + 1}
        /\ nsIdx' = nsIdx + 1 => pc' = "list" /\ retry' = RetryBudget
        /\ pc # "clearNamespaces" =>
             \A n \in LaterObjects : objects'[n] = objects[n]
        /\ Returned => UNCHANGED vars]_vars
  /\ [](pc = "sleep" => retry > 0)
  /\ []((Returned /\ result = "error") =>
          /\ retry = 0
          /\ \A k \in (nsIdx + 1)..Len(namespacesToClear) : lastFound[k] = {}
          /\ \A n \in LaterObjects : objects[n] = "live")
  /\ []((Returned /\ result = "nil") => nsIdx = Len(namespacesToClear) \/ namespacesToClear = <<>>)

\* the error was returned in the first of two namespaces
C31_Witness ==
  /\ Returned /\ result = "error"
  /\ namespacesToClear = << "ns2", "ns4" >>
  /\ nsIdx = 1
  /\ objects["pod-ns4"] = "live"

\* ----------------------------------------------------------------- C32
\* C32 (as claimed): when a delete pass ends with no failed Delete, the
\* (resource type, name) pairs passed to Delete are exactly those of the
\* owned objects without deletion timestamp that the list pass found, each
\* passed once.
C32_DeletesAreTheFound ==
  (pc = "delete" /\ kindIdx > Len(deleteOrderedKinds) /\ NoDeleteFailed) =>
    /\ {<<deleteCalls[x].GVR, deleteCalls[x].name>> : x \in 1..Len(deleteCalls)}
         = {<<ObjectNamed(n).gvr, n>> : n \in lastFound[nsIdx]}
    /\ Len(deleteCalls) = Cardinality(lastFound[nsIdx])

\* ... with a loop variable per iteration
C32_PerIteration == loopVarPerIteration => C32_DeletesAreTheFound

\* ----------------------------------------------------------------- C33
\* C33: deletePVCs calls Delete for the claims referenced by the volumes of
\* the listed pods, in order; it returns nil only when a Delete was issued for
\* every such claim and each succeeded or reported not-found; a Delete that
\* fails with another error is the last call, and the error is returned.
C33_PvcDeletes ==
  /\ \A x \in 1..Len(pvcDeletes) :
       /\ pvcDeletes[x].name = ClaimsOfPods(podsList)[x]
       /\ pvcDeletes[x].out = "error" => x = Len(pvcDeletes)
  /\ (pc = "pvcReturned" /\ pvcResult = "nil") =>
       /\ Len(pvcDeletes) = Len(ClaimsOfPods(podsList))
       /\ \A x \in 1..Len(pvcDeletes) : pvcDeletes[x].out \in {"ok", "notFound"}
  /\ (pc = "pvcReturned" /\ pvcDeletes # <<>>) =>
       (pvcResult = "deleteError" <=> pvcDeletes[Len(pvcDeletes)].out = "error")
  /\ (pc = "pvcReturned" /\ pvcResult = "deleteError") =>
       pvcDeletes # <<>>

\* nil was returned after the claim shared by two pods was deleted once and
\* reported not-found once
C33_Witness ==
  /\ pc = "pvcReturned" /\ pvcResult = "nil"
  /\ Len(pvcDeletes) >= 2
  /\ pvcDeletes[1] = [name |-> "data", out |-> "ok"]
  /\ \E x \in 2..Len(pvcDeletes) : pvcDeletes[x] = [name |-> "data", out |-> "notFound"]

\* ----------------------------------------------------------------- C34
\* C34 (as claimed): once deletePVCs has written its selector, and when it has
\* returned, the caller's label selector is as it was at the call, and it
\* lets the same objects pass the filter of clearNamespaces as before.
C34_CallerSelectorUnchanged ==
  pc \in {"listPods", "deletePvc", "pvcReturned"} =>
    /\ callerSelector = selectorAtCall
    /\ \A labels \in ObjectLabels :
         LabelsMatch(callerSelector, labels) <=> LabelsMatch(selectorAtCall, labels)

\* ---------------------------------------------------------------- C35
\* the invocations whose monitor has been started and not yet received
MonitorWaiting(p) == p \in procs /\ monitor[p] = "waiting"

InRegistrySection(p) == ipc[p] \in {"search", "resolve", "delete", "gc", "defer"}

\* C36: of the invocations that run at the same time at most one gets past
\* the already-running test and searches or deletes registry images.
C36_AtMostOneInRegistry ==
  Cardinality({p \in procs : InRegistrySection(p)}) <= 1

\* ---------------------------------------------------------------- C37
\* C37: an invocation never deletes a digest that it resolved for an image of
\* usedImages, and when resolving a used image fails with an error other than
\* 404 the invocation deletes nothing.
C37_UsedDigestsKept ==
  \A p \in procs :
    /\ deletedDigests[p] \cap resolvedDigests[p] = {}
    /\ finalError[p] = "failed to get digest" => deletedDigests[p] = {}

\* an invocation has resolved d1 for a used image, deleted d2 and returned
C37_Witness ==
  \E p \in procs :
    /\ ipc[p] = "returned"
    /\ resolvedDigests[p] = {"d1"}
    /\ deletedDigests[p] = {"d2"}

\* ---------------------------------------------------------------- C38
\* the applications of the registry whose latest version supports rollback
RollbackApps == {i \in 1..Len(registryApps) : registryApps[i].rollback = "yes"}

\* DeleteUnusedImages has ended, by a return or by a panic
DuiEnded == pc = "duiReturned"

\* no image has been deleted: deleteUnusedImages was not called and the
\* registry holds what it held
NoImageDeleted == procs = {} /\ registryDigests = RegistryContents

\* every lookup of application i up to its rollback check succeeds
LookupsSucceed(i) == registryApps[i].getApp = "ok" /\ registryApps[i].latest = "ok"

\* application i passes the whole iteration of the loop
AppPasses(i) ==
  /\ LookupsSucceed(i)
  /\ registryApps[i].rollback = "no"
  /\ registryApps[i].downstreams = "ok"

\* C38 as stated: with ignoreRollback = false, when rollback is supported for
\* the latest version of any application that shares the registry,
\* DeleteUnusedImages deletes no image and returns an AppRollbackError.
C38_RollbackOfAnyApp ==
  DuiEnded /\ ~ignoreRollback /\ RollbackApps # {}
    => NoImageDeleted /\ duiResult = "AppRollbackError"

\* C38, amended: with ignoreRollback = false, when rollback is supported for
\* the latest version of any application that shares the registry,
\* DeleteUnusedImages deletes no image; and it returns an AppRollbackError, for
\* the first such application in the order of GetAppIDsFromRegistry, when
\* image deletion is enabled, the registry is not read-only, the cluster is
\* kURL and every store lookup before that rollback check succeeds.  The
\* AppRollbackError is returned in no other case.
C38_RollbackOfFirstApp ==
  /\ DuiEnded /\ ~ignoreRollback /\ RollbackApps # {} => NoImageDeleted
  /\ \A m \in RollbackApps :
       /\ DuiEnded /\ ~ignoreRollback
       /\ imageDeletionEnabled /\ ~registryReadOnly /\ kurl = "true"
       /\ failingLookup = "none"
       /\ \A j \in 1..(m - 1) : AppPasses(j)
       /\ LookupsSucceed(m)
       => duiResult = "AppRollbackError" /\ appIdx = m
  /\ DuiEnded /\ duiResult = "AppRollbackError"
       => /\ ~ignoreRollback
          /\ appIdx \in RollbackApps
          /\ \A j \in 1..(appIdx - 1) : j \notin RollbackApps
          /\ NoImageDeleted

\* the second of two applications supports rollback and the call has returned
\* the AppRollbackError for it
C38_Witness ==
  /\ DuiEnded
  /\ ~ignoreRollback
  /\ Len(registryApps) = 2
  /\ RollbackApps = {2}
  /\ duiResult = "AppRollbackError"
  /\ appIdx = 2

\* ---------------------------------------------------------------- C39
\* every CopyImage call so far has failed
AllAttemptsFailed == \A i \in 1..Len(copyCalls) : copyCalls[i] # "nil"

\* C39: pushImage calls CopyImage at most 5 times and never after a
\* successful call, returns an error if and only if all 5 calls failed, and
\* with LogForUI writes one file.begin record followed by exactly one file.end
\* or file.error record.
C39_FiveAttempts ==
  /\ Len(copyCalls) <= 5
  /\ \A i \in 1..(Len(copyCalls) - 1) : copyCalls[i] # "nil"
  /\ pc = "pushReturned" =>
       /\ pushResult # "nil" <=> Len(copyCalls) = 5 /\ AllAttemptsFailed
       /\ pushResult = "nil" <=> copyCalls # <<>> /\ copyCalls[Len(copyCalls)] = "nil"
       /\ logForUI =>
            /\ Len(reportWriter) = 2
            /\ reportWriter[1].tag = "file.begin"
            /\ reportWriter[2].tag = IF pushResult = "nil" THEN "file.end" ELSE "file.error"
  /\ logForUI /\ pc \in {"copyImage", "pushImageEnd"} =>
       Len(reportWriter) = 1 /\ reportWriter[1].tag = "file.begin"

\* five failed attempts reported for the UI
C39_Witness ==
  /\ pc = "pushReturned"
  /\ logForUI
  /\ Len(copyCalls) = 5
  /\ AllAttemptsFailed
  /\ pushResult = "failed to push image"
  /\ reportWriter[2] = [tag |-> "file.error", text |-> copyCalls[5]]

\* ---------------------------------------------------------------- C40
\* grouped is a partition of r that keeps the input order: the groups share
\* no resource, each group is r restricted to the resources of the group, and
\* the groups hold as many resources as r
IsOrderedPartition(grouped, r) ==
  /\ \A v, w \in DOMAIN grouped : v # w => Range(grouped[v]) \cap Range(grouped[w]) = {}
  /\ \A w \in DOMAIN grouped :
       grouped[w] = SelectSeq(r, LAMBDA x : x \in Range(grouped[w]))
  /\ \A i \in 1..Len(r) : \E w \in DOMAIN grouped : r[i] \in Range(grouped[w])

\* the resource carries no annotation of the given key
NoWeightAnnotation(resource, key) ==
  \/ ~resource.unstructured
  \/ resource.annotations = Nil
  \/ key \notin DOMAIN resource.annotations[1]

\* every resource without the annotation is in the group keyed "0"
UnweighedInGroupZero(grouped, r, key) ==
  \A i \in 1..Len(r) :
    NoWeightAnnotation(r[i], key) =>
      "0" \in DOMAIN grouped /\ r[i] \in Range(grouped["0"])

\* C40: GroupByDeletionWeight and GroupByCreationWeight partition their
\* input, every resource in exactly one group and in input order within it,
\* and a resource that carries no weight annotation (no structured content, no
\* annotations, or annotations without the weight key) is in the group "0".
C40_PartitionWithDefaultZero ==
  pc = "grouped" =>
    /\ IsOrderedPartition(byDeletionWeight, groupInput)
    /\ IsOrderedPartition(byCreationWeight, groupInput)
    /\ UnweighedInGroupZero(byDeletionWeight, groupInput, DeletionWeightKey)
    /\ UnweighedInGroupZero(byCreationWeight, groupInput, CreationWeightKey)

\* what holds of C40: both groupings are partitions that keep the input
\* order, and a resource without structured content or without annotations is
\* in the group "0"
C40_PartitionHolds ==
  pc = "grouped" =>
    /\ IsOrderedPartition(byDeletionWeight, groupInput)
    /\ IsOrderedPartition(byCreationWeight, groupInput)
    /\ \A i \in 1..Len(groupInput) :
         ~groupInput[i].unstructured \/ groupInput[i].annotations = Nil
           => /\ groupInput[i] \in Range(byDeletionWeight["0"])
              /\ groupInput[i] \in Range(byCreationWeight["0"])

====
